---- MODULE Spec2Model ----
(***************************************************************************)
(* Model of the television-schedule ingestion core of the repository:      *)
(*   src/tv/tv_database.py  (TVDatabase, the SQLite store)                  *)
(*   src/tv/collector.py    (TelkussaCollector, fetch / normalise / store)  *)
(*   src/tv/pocketbase_collector.py  (the remote-store collector)           *)
(*                                                                          *)
(* Python values are records [t, s, n]: t is the type tag, s the text of a  *)
(* str (a sequence of tokens; " ", ":" and "_" are single-character         *)
(* tokens), n the value of an int.  A dictionary key that is missing is the *)
(* value Absent, Python's None (SQL NULL) is the value None.                *)
(***************************************************************************)
EXTENDS Integers, Sequences, FiniteSets, TLC

VARIABLES
    channels,        \* table channels: set of rows [id, name, category, active]
    programs,        \* table programs: set of rows
    genres,          \* table genres: set of rows [id, name]
    people,          \* table people: set of rows [id, name]
    program_genres,  \* table program_genres: set of rows [program_id, genre_id]
    program_people,  \* table program_people: set of rows [program_id, person_id, role]
    fetch_log,       \* table fetch_log: sequence of rows, in rowid order
    seq,             \* sqlite_sequence: last AUTOINCREMENT rowid of programs, genres, people
    last,            \* the last TVDatabase call: its name, argument, outcome
    pc,              \* position of the collector run
    run,             \* the collector run: its dates, the unit of work, the totals
    cur,             \* the current (channel, date) unit of work
    listed,          \* history: for each committed insert_program, the genres and people it listed
    memo,            \* history: the results of direct _get_program_id calls, by arguments
    upstream,        \* what the schedule API holds for the (channel, date) pairs asked so far
    pb               \* the remote-store collector process and the record store it writes

store == <<programs, genres, people, program_genres, program_people, seq>>
vars == <<channels, programs, genres, people, program_genres, program_people,
          fetch_log, seq, last, pc, run, cur, listed, memo, upstream, pb>>

-----------------------------------------------------------------------------
(* Bounds of the model *)

MaxPrograms == 2     \* rows the programs table may hold
MaxLog == 4          \* rows the fetch_log table may hold
MaxBatch == 2        \* programs in one upstream response
MaxDaysAhead == 1    \* largest days_ahead of a run
NumChannels == 2     \* how many of the configured CHANNELS a run visits

(* Program constants *)

RETRY_COUNT == 3     \* fetch_channel_data(..., retry_count=3)

-----------------------------------------------------------------------------
(* Python values *)

None == [t |-> "none", s |-> <<>>, n |-> 0]
Absent == [t |-> "absent", s |-> <<>>, n |-> 0]
PyStr(toks) == [t |-> "str", s |-> toks, n |-> 0]
PyInt(k) == [t |-> "int", s |-> <<>>, n |-> k]

\* bool(v)
Truthy(v) ==
    \/ v.t = "str" /\ v.s # <<>>
    \/ v.t = "int" /\ v.n # 0

\* d.get(key): a missing key reads as None
Get(v) == IF v.t = "absent" THEN None ELSE v

\* d.get(key, default)
GetOr(v, default) == IF v.t = "absent" THEN default ELSE v

\* a or b
Or(a, b) == IF Truthy(a) THEN a ELSE b

\* key in d
Has(v) == v.t # "absent"

-----------------------------------------------------------------------------
(* Text and time *)

\* Calendar days are numbered; "now" is a day and a minute of that day.
Days == 1 .. 4
KeepDays == {0, 1, 2}

\* date.isoformat() of a day, and strftime("%Y%m%d") of it
IsoDay == <<"2025-01-01", "2025-01-02", "2025-01-03", "2025-01-04", "2025-01-05", "2025-01-06">>
Ymd == <<"20250101", "20250102", "20250103", "20250104", "20250105", "20250106">>

\* s.replace(old, new) for a one-character old; new = <<>> deletes it
RECURSIVE Replace(_, _, _)
Replace(toks, old, new) ==
    IF toks = <<>> THEN <<>>
    ELSE (IF Head(toks) = old THEN new ELSE <<Head(toks)>>) \o Replace(Tail(toks), old, new)

\* str(v), as an f-string formats it
Format(v) ==
    CASE v.t = "str" -> v.s
      [] v.t = "int" -> <<ToString(v.n)>>
      [] OTHER -> <<"None">>

\* 'T' in str(v)
ContainsT(v) == \E i \in 1 .. Len(Format(v)) : Format(v)[i] = "T"

\* An ISO timestamp of a day at 20:00, and the unix integer of the same instant
\* (the model's unix integers count days, one per day, from day 1 = 1).
IsoAt(d) == PyStr(<<IsoDay[d], "T", "20", ":", "00">>)

\* An ISO timestamp of a day at 21:30
IsoLateAt(d) == PyStr(<<IsoDay[d], "T", "21", ":", "30">>)
UnixAt(d) == PyInt(d)

\* datetime.fromtimestamp(n).isoformat()
FromTimestamp(n) == IsoAt(n)

\* SQLite date(x), as the set of its values: the day of an ISO text, 2000-01-01
\* (day 0) for a bare HH:MM, and no value (NULL) for anything else.
SqlDate(v) ==
    IF v.t = "str" /\ Len(v.s) >= 1 /\ (\E d \in 1 .. Len(IsoDay) : IsoDay[d] = v.s[1])
    THEN {d \in 1 .. Len(IsoDay) : IsoDay[d] = v.s[1]}
    ELSE IF v.t = "str" /\ Len(v.s) = 3 /\ v.s[2] = ":" THEN {0}
    ELSE {}

\* The hour or minute a two-digit token of a timestamp denotes
Num(tok) ==
    CASE tok = "00" -> 0 [] tok = "20" -> 20 [] tok = "21" -> 21 [] tok = "30" -> 30

\* v is a full ISO timestamp
IsIso(v) == v.t = "str" /\ Len(v.s) = 5 /\ v.s[2] = "T" /\ SqlDate(v) # {}

\* The minute of a full ISO timestamp, counted from day 0 at 00:00
MinuteOf(v) == (CHOOSE d \in SqlDate(v) : TRUE) * 1440 + Num(v.s[3]) * 60 + Num(v.s[5])

\* The place of a text among the texts SQLite's ORDER BY compares: ISO
\* timestamps of the model's form sort by their instant, any other value (no
\* stored start_time of a dated program is one) sorts first.
TextOrder(v) == IF IsIso(v) THEN MinuteOf(v) ELSE 0

-----------------------------------------------------------------------------
(* TVDatabase: one transaction *)

\* The tables a transaction of insert_program or cleanup_old_programs can write.
Tables ==
    [programs |-> programs, genres |-> genres, people |-> people,
     program_genres |-> program_genres, program_people |-> program_people,
     seq |-> seq, raised |-> FALSE]

\* get_connection opens the connection and issues no PRAGMA foreign_keys = ON:
\* SQLite then enforces no FOREIGN KEY clause and runs no ON DELETE CASCADE.
foreign_keys == FALSE

\* The imports as they would be with "from datetime import datetime, timedelta"
timedelta_imported_too == TRUE

\* tv_database.py imports datetime alone; cleanup_old_programs also names timedelta.
timedelta_imported == FALSE

\* IntegrityError as it would be if external_id were not declared UNIQUE
IntegrityErrorNoUnique(tx, pd) ==
    \/ pd.channel_id = None
    \/ pd.title = None
    \/ pd.start_time = None
    \/ pd.end_time = None

\* The programs INSERT raises sqlite3.IntegrityError: external_id UNIQUE (NULLs
\* never collide), and channel_id, title, start_time, end_time NOT NULL.
IntegrityError(tx, pd) ==
    \/ pd.external_id # None /\ \E p \in tx.programs : p.external_id = pd.external_id
    \/ pd.channel_id = None
    \/ foreign_keys /\ \A c \in channels : PyInt(c.id) # pd.channel_id
    \/ pd.title = None
    \/ pd.start_time = None
    \/ pd.end_time = None

\* INSERT INTO programs (...) VALUES (...); program_id = cursor.lastrowid
InsertRow(tx, pd) ==
    [tx EXCEPT
       !.programs = @ \cup {[id |-> tx.seq.programs + 1,
                              external_id |-> pd.external_id,
                              channel_id |-> pd.channel_id,
                              title |-> pd.title,
                              start_time |-> pd.start_time,
                              end_time |-> pd.end_time,
                              duration |-> pd.duration]},
       !.seq.programs = @ + 1]

\* _add_genre_to_program as it would be with a plain INSERT into a genres table
\* whose name is not UNIQUE
AddGenreNoDedup(tx, program_id, genre_name) ==
    LET t1 == IF genre_name = None THEN [tx EXCEPT !.seq.genres = @ + 1]
              ELSE [tx EXCEPT !.genres = @ \cup {[id |-> tx.seq.genres + 1, name |-> genre_name]},
                              !.seq.genres = @ + 1]
        found == {g \in t1.genres : g.name = genre_name}
    IN  IF tx.raised THEN tx
        ELSE IF found = {} THEN [t1 EXCEPT !.raised = TRUE]
        ELSE [t1 EXCEPT !.program_genres =
                 @ \cup {[program_id |-> program_id,
                          genre_id |-> (CHOOSE g \in found : TRUE).id]}]

\* _add_genre_to_program(conn, program_id, genre_name).  An INSERT OR IGNORE
\* that is ignored (the name is NULL or stored already) still advances the
\* AUTOINCREMENT counter of its table in sqlite_sequence.
AddGenre(tx, program_id, genre_name) ==
    LET ignored == genre_name = None \/ \E g \in tx.genres : g.name = genre_name
        t1 == IF ignored THEN [tx EXCEPT !.seq.genres = @ + 1]
              ELSE [tx EXCEPT !.genres = @ \cup {[id |-> tx.seq.genres + 1, name |-> genre_name]},
                              !.seq.genres = @ + 1]
        found == {g \in t1.genres : g.name = genre_name}
    IN  IF tx.raised THEN tx
        ELSE IF found = {} THEN [t1 EXCEPT !.raised = TRUE]
        ELSE [t1 EXCEPT !.program_genres =
                 @ \cup {[program_id |-> program_id,
                          genre_id |-> (CHOOSE g \in found : TRUE).id]}]

\* _add_person_to_program as it would be with a plain INSERT into
\* program_people: a link that is there already raises
AddPersonPlainLink(tx, program_id, person_name, role) ==
    LET ignored == person_name = None \/ \E q \in tx.people : q.name = person_name
        t1 == IF ignored THEN [tx EXCEPT !.seq.people = @ + 1]
              ELSE [tx EXCEPT !.people = @ \cup {[id |-> tx.seq.people + 1, name |-> person_name]},
                              !.seq.people = @ + 1]
        found == {q \in t1.people : q.name = person_name}
        link == [program_id |-> program_id,
                 person_id |-> (CHOOSE q \in found : TRUE).id,
                 role |-> role]
    IN  IF tx.raised THEN tx
        ELSE IF found = {} THEN [t1 EXCEPT !.raised = TRUE]
        ELSE IF link \in t1.program_people THEN [t1 EXCEPT !.raised = TRUE]
        ELSE [t1 EXCEPT !.program_people = @ \cup {link}]

\* _add_person_to_program(conn, program_id, person_name, role)
AddPerson(tx, program_id, person_name, role) ==
    LET ignored == person_name = None \/ \E q \in tx.people : q.name = person_name
        t1 == IF ignored THEN [tx EXCEPT !.seq.people = @ + 1]
              ELSE [tx EXCEPT !.people = @ \cup {[id |-> tx.seq.people + 1, name |-> person_name]},
                              !.seq.people = @ + 1]
        found == {q \in t1.people : q.name = person_name}
    IN  IF tx.raised THEN tx
        ELSE IF found = {} THEN [t1 EXCEPT !.raised = TRUE]
        ELSE [t1 EXCEPT !.program_people =
                 @ \cup {[program_id |-> program_id,
                          person_id |-> (CHOOSE q \in found : TRUE).id,
                          role |-> role]}]

\* for genre_name in program_data['genres']: ...
RECURSIVE AddGenres(_, _, _)
AddGenres(tx, program_id, names) ==
    IF names = <<>> THEN tx
    ELSE AddGenres(AddGenre(tx, program_id, Head(names)), program_id, Tail(names))

\* for person in program_data['people']: ...
RECURSIVE AddPeople(_, _, _)
AddPeople(tx, program_id, persons) ==
    IF persons = <<>> THEN tx
    ELSE AddPeople(AddPerson(tx, program_id, Head(persons).name, Head(persons).role),
                   program_id, Tail(persons))

\* insert_program as it would be if get_connection committed on every exit,
\* also when the body raises
InsertProgramResultNoRollback(db, pd) ==
    IF IntegrityError(db, pd) THEN [ret |-> "False", tx |-> db]
    ELSE LET t1 == InsertRow(db, pd)
             t2 == AddGenres(t1, t1.seq.programs, pd.genres)
             t3 == AddPeople(t2, t1.seq.programs, pd.people)
         IN  IF t3.raised THEN [ret |-> "raised", tx |-> t3]
             ELSE [ret |-> "True", tx |-> t3]

\* insert_program(program_data): [ret, tx].  ret is "True", "False" or "raised";
\* get_connection commits when the body returns and rolls back when it raises.
InsertProgramResult(db, pd) ==
    IF IntegrityError(db, pd) THEN [ret |-> "False", tx |-> db]
    ELSE LET t1 == InsertRow(db, pd)
             t2 == AddGenres(t1, t1.seq.programs, pd.genres)
             t3 == AddPeople(t2, t1.seq.programs, pd.people)
         IN  IF t3.raised THEN [ret |-> "raised", tx |-> db]
             ELSE [ret |-> "True", tx |-> t3]

\* cleanup_old_programs(days_to_keep), called on the day today: [ret, tx].
\* ret is the count of deleted rows, or -1 when the call raises (NameError).
CleanupResult(db, days_to_keep, today) ==
    LET cutoff == today - days_to_keep
        old == {p \in db.programs : \E d \in SqlDate(p.start_time) : d < cutoff}
        gone == {p.id : p \in old}
    IN  IF ~timedelta_imported THEN [ret |-> -1, tx |-> db]
        ELSE [ret |-> Cardinality(old),
              tx |-> [db EXCEPT
                  !.programs = @ \ old,
                  !.program_genres =
                      IF foreign_keys THEN {l \in @ : l.program_id \notin gone} ELSE @,
                  !.program_people =
                      IF foreign_keys THEN {l \in @ : l.program_id \notin gone} ELSE @]]

-----------------------------------------------------------------------------
(* TelkussaCollector: normalisation *)

\* Python lists: a missing key, or the list of its items
NoList == [t |-> "absent", items |-> <<>>]
List(items) == [t |-> "list", items |-> items]

\* The ids of TelkussaCollector.CHANNELS, in list order
CHANNEL_IDS == <<1, 2, 3, 4, 13>>
CHANNELS == SubSeq(CHANNEL_IDS, 1, NumChannels)

\* _parse_time(time_str)
ParseTime(time_str) ==
    IF ~Truthy(time_str) THEN None
    ELSE IF ContainsT(time_str) THEN time_str
    ELSE IF time_str.t = "int" THEN FromTimestamp(time_str.n)
    ELSE time_str

\* _get_program_id as it would be if it numbered the programs from the store's
\* row counter instead of reading the title and start time
GetProgramIdCounting(program, channel_id, date_str) ==
    IF Has(program.id) THEN PyStr(Format(program.id))
    ELSE PyStr(Format(PyInt(channel_id)) \o <<"_">> \o date_str \o <<"_">>
               \o Format(PyInt(seq.programs)))

\* _get_program_id(program, channel_id, date_str)
GetProgramId(program, channel_id, date_str) ==
    IF Has(program.id) THEN PyStr(Format(program.id))
    ELSE LET title == GetOr(program.title, GetOr(program.name, PyStr(<<"unknown">>)))
             start == GetOr(program.startTime, GetOr(program.start, PyStr(<<>>)))
             text == Format(PyInt(channel_id)) \o <<"_">> \o date_str \o <<"_">>
                     \o Format(title) \o <<"_">> \o Format(start)
         IN  PyStr(Replace(Replace(text, " ", <<"_">>), ":", <<>>))

\* people.extend([{'name': actor, 'role': 'actor'} for actor in program['actors']])
RECURSIVE Actors(_)
Actors(names) ==
    IF names = <<>> THEN <<>>
    ELSE <<[name |-> Head(names), role |-> "actor"]>> \o Actors(Tail(names))

\* The program_data dict parse_and_store_programs builds for one raw program
ProgramData(program, channel_id, date_str) ==
    [genres |-> IF program.genres.t = "list" /\ program.genres.items # <<>>
                THEN program.genres.items
                ELSE IF Has(program.genre) THEN <<program.genre>>
                ELSE <<>>,
     people |-> (IF program.actors.t = "list" THEN Actors(program.actors.items) ELSE <<>>)
                \o (IF Has(program.director)
                    THEN <<[name |-> program.director, role |-> "director"]>>
                    ELSE <<>>),
     channel_id |-> PyInt(channel_id),
     title |-> Or(Get(program.title), Get(program.name)),
     start_time |-> ParseTime(Or(Get(program.startTime), Get(program.start))),
     end_time |-> ParseTime(Or(Get(program.endTime), Get(program.end))),
     external_id |-> GetProgramId(program, channel_id, date_str),
     duration |-> Or(Get(program.duration), Get(program.length))]

-----------------------------------------------------------------------------
(* Inputs *)

Raw(id, title, name, startTime, start, endTime, end, genreList, genre, actors, director) ==
    [dict |-> TRUE,
     id |-> id, title |-> title, name |-> name, startTime |-> startTime, start |-> start,
     endTime |-> endTime, end |-> end, genres |-> genreList, genre |-> genre,
     actors |-> actors, director |-> director,
     duration |-> Absent, length |-> Absent]

Drama == PyStr(<<"Drama">>)
News == PyStr(<<"News">>)
Ann == PyStr(<<"Ann">>)
Bob == PyStr(<<"Bob">>)

\* A native id, title, ISO times (20:00 to 21:30), a genre list, actors and a
\* director; the upstream duration field says 45.
RawA == [Raw(PyInt(7), PyStr(<<"a">>), Absent, IsoAt(1), Absent, IsoLateAt(1), Absent,
             List(<<Drama>>), Absent, List(<<Ann>>), Bob)
         EXCEPT !.duration = PyInt(45)]
\* No native id; the aliases name, start, end (unix integers) and genre.
RawB == Raw(Absent, Absent, PyStr(<<"b", " ", "c">>), Absent, UnixAt(2), Absent, UnixAt(2),
            NoList, Drama, NoList, Ann)
\* Neither title nor name.
RawC == Raw(PyInt(8), Absent, Absent, IsoAt(1), Absent, IsoAt(1), Absent,
            NoList, Absent, NoList, Absent)
\* A genre list whose second entry is null.
RawD == Raw(PyInt(9), PyStr(<<"a">>), Absent, IsoAt(3), Absent, IsoAt(3), Absent,
            List(<<News, None>>), Absent, NoList, Absent)

RawPrograms == {RawA, RawB, RawC, RawD}

\* A record that lists one genre twice, one actor twice, and the actor as the
\* director too.
RawE == Raw(PyInt(10), PyStr(<<"e">>), Absent, IsoAt(1), Absent, IsoLateAt(1), Absent,
            List(<<Drama, Drama>>), Absent, List(<<Ann, Ann>>), Ann)

\* An entry of the program list that is not a JSON object (null, a string, a
\* number): it has no keys and no get method.
RawNull ==
    [Raw(Absent, Absent, Absent, Absent, Absent, Absent, Absent, NoList, Absent, NoList, Absent)
     EXCEPT !.dict = FALSE]

\* The entries a program list of a response can hold
RawItems == RawPrograms \cup {RawNull}

\* Upstream response bodies: a JSON array of programs, or a JSON object that holds
\* them under "programs", and/or holds some other key.
Body(t, has_programs, other, items) ==
    [t |-> t, has_programs |-> has_programs, other |-> other, items |-> items]
NoBody == Body("none", FALSE, FALSE, <<>>)

RawLists == UNION {[1 .. n -> RawItems] : n \in 0 .. MaxBatch}

Bodies ==
    {Body("list", FALSE, FALSE, items) : items \in RawLists}
    \cup {Body("dict", TRUE, FALSE, items) : items \in RawLists}
    \cup {Body("dict", FALSE, TRUE, <<>>), Body("dict", FALSE, FALSE, <<>>)}

\* bool(data)
BodyTruthy(data) ==
    \/ data.t = "list" /\ data.items # <<>>
    \/ data.t = "dict" /\ (data.has_programs \/ data.other)

\* program_data arguments of direct insert_program calls: what the collector
\* builds, and the same without an external_id.
ProgramDatas ==
    LET built == {ProgramData(r, 1, <<Ymd[1]>>) : r \in RawPrograms}
                 \cup {ProgramData(RawA, 2, <<Ymd[1]>>)}
    IN  built \cup {[ProgramData(RawA, 1, <<Ymd[1]>>) EXCEPT !.external_id = None]}

NoProgramData ==
    [genres |-> <<>>, people |-> <<>>, channel_id |-> None, title |-> None,
     start_time |-> None, end_time |-> None, external_id |-> None, duration |-> None]

ChannelNames == {"YLE TV1", "MTV3"}

-----------------------------------------------------------------------------
(* State *)

\* The record of a TVDatabase call: ret is "True", "False", "ok" or "raised", n the
\* number a call returns, cutoff the cutoff day of a cleanup, q the arguments of
\* a query and rows the ids of the programs rows it returns, in the order of
\* the result; flip changes with every call.
Call(op, pd, ret, n) ==
    [op |-> op, pd |-> pd, ret |-> ret, n |-> n, cutoff |-> 0,
     q |-> [day |-> 0, channel_id |-> None], rows |-> <<>>,
     flip |-> ~last.flip]

\* A unit of work: the locals of the loop body of collect_daily_data, of
\* fetch_channel_data and of parse_and_store_programs; hist (the outcome of each
\* HTTP attempt), inserts (insert_program calls made), log0 and rows0 (fetch_log
\* rows and programs rows when the unit began), fresh (the response held
\* well-formed, unseen records only) and errors (the text of each exception the
\* loop caught) record its history.
NoUnit ==
    [channel_id |-> 0, day |-> 0, attempt |-> 0, hist |-> <<>>, wait |-> 0,
     data |-> NoBody, i |-> 0, stored_count |-> 0, inserts |-> 0, log0 |-> 0,
     rows0 |-> 0, fresh |-> FALSE, errors |-> <<>>]

\* str(e) of the TypeError that cursor.fetchone()['id'] raises when no row matches
NotSubscriptable == "'NoneType' object is not subscriptable"

\* The locals of collect_daily_data; units (pairs processed), log0 and rows0
\* (fetch_log rows and programs rows when the run began) record its history.
NoRun ==
    [date |-> 0, days_ahead |-> 0, day_offset |-> 0, ci |-> 0,
     date_programs |-> 0, total_programs |-> 0, units |-> 0, log0 |-> 0, rows0 |-> 0]

\* The remote-store collector before main() runs, with a record store that
\* holds the active channels and nothing else.  pc is the position of the
\* process, status its exit status; admin_email and admin_password say whether
\* the environment sets them; admin_token, days_ahead, day_offset, ci,
\* programs, i, stored and series_map are the locals of PocketBaseClient, main
\* and collect_daily_data; records, series and fetch_logs are the collections
\* of the store, created the creation time of each fetch_logs record, and
\* channel_records its channels collection; now is the time of the run and
\* cutoff the cutoff of its cleanup, in seconds from day 1 at 00:00; requested (a
\* request to the upstream or to the store has been issued), answered (the
\* store has answered every request of the cleanup successfully), timeline (the
\* schedule fetches and rate-limit sleeps of the run, in order) and wrote (the
\* last write to a record of the store: its collection's record id and whether
\* it was a create, a patch-update or an administrator's edit) record its
\* history.
NoPB ==
    [pc |-> "start", status |-> 0, admin_email |-> FALSE, admin_password |-> FALSE,
     admin_token |-> FALSE,
     days_ahead |-> 0, day_offset |-> 0, ci |-> 0,
     programs |-> <<>>, i |-> 0, stored |-> 0, series_map |-> {},
     records |-> {}, series |-> {}, fetch_logs |-> <<>>, created |-> <<>>,
     now |-> 0, cutoff |-> 0, answered |-> TRUE,
     channel_records |-> {[id |-> <<ToString(CHANNELS[k])>>,
                           name |-> PyStr(<<"old">>), active |-> TRUE] :
                              k \in 1 .. Len(CHANNELS)},
     requested |-> FALSE, timeline |-> <<>>,
     wrote |-> [id |-> <<>>, kind |-> "none"]]

Init ==
    /\ channels = {}
    /\ programs = {}
    /\ genres = {}
    /\ people = {}
    /\ program_genres = {}
    /\ program_people = {}
    /\ fetch_log = <<>>
    /\ seq = [programs |-> 0, genres |-> 0, people |-> 0]
    /\ last = [op |-> "init", pd |-> NoProgramData, ret |-> "ok", n |-> 0, cutoff |-> 0,
               q |-> [day |-> 0, channel_id |-> None], rows |-> <<>>, flip |-> FALSE]
    /\ pc = "idle"
    /\ run = NoRun
    /\ cur = NoUnit
    /\ listed = {}
    /\ memo = {}
    /\ upstream = {}
    /\ pb = NoPB

\* Commit the tables of a transaction.
Commit(tx) ==
    /\ programs' = tx.programs
    /\ genres' = tx.genres
    /\ people' = tx.people
    /\ program_genres' = tx.program_genres
    /\ program_people' = tx.program_people
    /\ seq' = tx.seq

\* The history of a call insert_program(pd) that ended as r
Listed(r, pd) ==
    IF r.ret = "True"
    THEN listed \cup {[program_id |-> r.tx.seq.programs, genres |-> pd.genres,
                        people |-> pd.people]}
    ELSE listed

\* A fetch_log row
LogRow(channel_id, date, success, programs_count, error_msg) ==
    [channel_id |-> channel_id, date |-> date, success |-> success,
     programs_count |-> programs_count, error_message |-> error_msg]

-----------------------------------------------------------------------------
(* TVDatabase calls made directly *)

\* upsert_channel as it would be with INSERT OR REPLACE INTO channels: the
\* replaced row takes the column default active = 1
UpsertChannelReplacing(channel_id, name) ==
    /\ pc = "idle"
    /\ channels' = {c \in channels : c.id # channel_id}
          \cup {[id |-> channel_id, name |-> name, active |-> TRUE]}
    /\ last' = Call("upsert_channel", NoProgramData, "ok", 0)
    /\ UNCHANGED <<store, fetch_log, pc, run, cur, listed, memo, upstream, pb>>

\* upsert_channel(channel_id, name, logo_url, category)
UpsertChannel(channel_id, name) ==
    /\ pc = "idle"
    /\ channels' = {c \in channels : c.id # channel_id}
          \cup {[id |-> channel_id, name |-> name,
                  active |-> IF \E c \in channels : c.id = channel_id
                             THEN (CHOOSE c \in channels : c.id = channel_id).active
                             ELSE TRUE]}
    /\ last' = Call("upsert_channel", NoProgramData, "ok", 0)
    /\ UNCHANGED <<store, fetch_log, pc, run, cur, listed, memo, upstream, pb>>

\* insert_program(program_data)
InsertProgram(pd) ==
    LET r == InsertProgramResult(Tables, pd)
    IN  /\ pc = "idle"
        /\ Cardinality(programs) < MaxPrograms \/ r.ret # "True"
        /\ Commit(r.tx)
        /\ last' = Call("insert_program", pd, r.ret, 0)
        /\ listed' = Listed(r, pd)
        /\ UNCHANGED <<channels, fetch_log, pc, run, cur, memo, upstream, pb>>

\* log_fetch as it would be with INSERT OR REPLACE on a table keyed by
\* (channel_id, date)
LogFetchReplacing(channel_id, day, success, programs_count) ==
    /\ pc = "idle"
    /\ Len(fetch_log) < MaxLog
    /\ fetch_log' = Append(SelectSeq(fetch_log,
                               LAMBDA r : r.channel_id # channel_id \/ r.date # Ymd[day]),
           LogRow(channel_id, Ymd[day], success, programs_count,
                  IF success THEN "" ELSE "Fetch failed"))
    /\ last' = Call("log_fetch", NoProgramData, "ok", 0)
    /\ UNCHANGED <<channels, store, pc, run, cur, listed, memo, upstream, pb>>

\* log_fetch(channel_id, date, success, programs_count, error_msg)
LogFetch(channel_id, day, success, programs_count) ==
    /\ pc = "idle"
    /\ Len(fetch_log) < MaxLog
    /\ fetch_log' = Append(fetch_log,
           LogRow(channel_id, Ymd[day], success, programs_count,
                  IF success THEN "" ELSE "Fetch failed"))
    /\ last' = Call("log_fetch", NoProgramData, "ok", 0)
    /\ UNCHANGED <<channels, store, pc, run, cur, listed, memo, upstream, pb>>

\* cleanup_old_programs(days_to_keep), called when datetime.now() is the day today
CleanupOldPrograms(days_to_keep, today) ==
    LET r == CleanupResult(Tables, days_to_keep, today)
    IN  /\ pc = "idle"
        /\ Commit(r.tx)
        /\ last' = [Call("cleanup_old_programs", NoProgramData,
                          IF r.ret < 0 THEN "raised" ELSE "ok",
                          IF r.ret < 0 THEN 0 ELSE r.ret)
                     EXCEPT !.cutoff = today - days_to_keep]
        /\ UNCHANGED <<channels, fetch_log, pc, run, cur, listed, memo, upstream, pb>>

\* The sequences that hold each row of a set once
Orderings(rows) ==
    {f \in [1 .. Cardinality(rows) -> rows] : \A i, j \in DOMAIN f : i # j => f[i] # f[j]}

\* ORDER BY p.start_time, after p.channel_id when by_channel; rows that compare
\* equal come in any order
Ordered(f, by_channel) ==
    \A i, j \in DOMAIN f :
        i < j =>
            IF by_channel /\ f[i].channel_id # f[j].channel_id
            THEN f[i].channel_id.n < f[j].channel_id.n
            ELSE TextOrder(f[i].start_time) <= TextOrder(f[j].start_time)

\* get_programs_by_date(date, channel_id): the rows of programs joined to their
\* channels whose start date is the date, of one channel and ordered by start
\* time when "if channel_id:" holds, else ordered by channel and start time
GetProgramsByDate(day, channel_id) ==
    LET found == {p \in programs :
                     /\ \E c \in channels : PyInt(c.id) = p.channel_id
                     /\ day \in SqlDate(p.start_time)
                     /\ Truthy(channel_id) => p.channel_id = channel_id}
    IN  /\ pc = "idle"
        /\ \E f \in Orderings(found) :
              /\ Ordered(f, ~Truthy(channel_id))
              /\ last' = [Call("get_programs_by_date", NoProgramData, "ok", Len(f))
                           EXCEPT !.q = [day |-> day, channel_id |-> channel_id],
                                  !.rows = [k \in DOMAIN f |-> f[k].id]]
        /\ UNCHANGED <<channels, store, fetch_log, pc, run, cur, listed, memo, upstream, pb>>

StoreNext ==
    \/ \E name \in ChannelNames : UpsertChannel(1, name)
    \/ \E pd \in ProgramDatas : InsertProgram(pd)
    \/ \E success \in BOOLEAN : LogFetch(1, 1, success, IF success THEN 1 ELSE 0)
    \/ \E k \in KeepDays, today \in Days : CleanupOldPrograms(k, today)
    \/ \E channel_id \in {None, PyInt(1)} : GetProgramsByDate(1, channel_id)

SpecStore == Init /\ [][StoreNext]_vars

-----------------------------------------------------------------------------
(* TelkussaCollector: a run of collect_daily_data *)

\* The names TelkussaCollector.CHANNELS gives the channels
CHANNEL_NAME(c) == IF c \in {1, 2} THEN "YLE TV1" ELSE "MTV3"

\* A record the store accepts: its NOT NULL columns are set and every genre and
\* person it lists has a name.
WellFormed(pd) ==
    /\ pd.title # None /\ pd.start_time # None /\ pd.end_time # None
    /\ pd.channel_id # None
    /\ \A k \in 1 .. Len(pd.genres) : pd.genres[k].t = "str"
    /\ \A k \in 1 .. Len(pd.people) : pd.people[k].name.t = "str"

\* The program_data of the k-th record of a response
Item(data, k, channel_id, day) == ProgramData(data.items[k], channel_id, <<Ymd[day]>>)

\* A response of well-formed records with distinct external IDs, none stored yet
Fresh(data, channel_id, day) ==
    \A k \in 1 .. Len(data.items) :
        /\ data.items[k].dict
        /\ WellFormed(Item(data, k, channel_id, day))
        /\ \A p \in programs : p.external_id # Item(data, k, channel_id, day).external_id
        /\ \A j \in 1 .. Len(data.items) :
               j # k => Item(data, j, channel_id, day).external_id
                        # Item(data, k, channel_id, day).external_id

\* The rows a response would add, counted record by record
NewRows(data, channel_id, day) ==
    Cardinality({k \in 1 .. Len(data.items) :
                    /\ data.items[k].dict
                    /\ ~IntegrityError(Tables, Item(data, k, channel_id, day))})

\* The unit of work of channel CHANNELS[ci] on the day
Unit(ci, day) ==
    [NoUnit EXCEPT !.channel_id = CHANNELS[ci], !.day = day, !.log0 = Len(fetch_log),
                   !.rows0 = Cardinality(programs)]

\* update_channels(): upsert_channel for every entry of CHANNELS
UpdateChannels ==
    /\ pc = "idle"
    /\ channels' = {c \in channels : \A k \in 1 .. Len(CHANNELS) : CHANNELS[k] # c.id}
          \cup {[id |-> CHANNELS[k], name |-> CHANNEL_NAME(CHANNELS[k]),
                  active |-> IF \E c \in channels : c.id = CHANNELS[k]
                             THEN (CHOOSE c \in channels : c.id = CHANNELS[k]).active
                             ELSE TRUE] : k \in 1 .. Len(CHANNELS)}
    /\ last' = Call("upsert_channel", NoProgramData, "ok", 0)
    /\ pc' = "main"
    /\ UNCHANGED <<store, fetch_log, run, cur, listed, memo, upstream, pb>>

\* collect_daily_data(date, days_ahead): up to the first fetch_channel_data call
CollectStart(date, days_ahead) ==
    /\ pc \in {"idle", "main"}
    /\ Len(fetch_log) + (days_ahead + 1) * NumChannels <= MaxLog
    /\ run' = [date |-> date, days_ahead |-> days_ahead, day_offset |-> 0, ci |-> 1,
                date_programs |-> 0, total_programs |-> 0, units |-> 0,
                log0 |-> Len(fetch_log), rows0 |-> Cardinality(programs)]
    /\ cur' = Unit(1, date)
    /\ pc' = "fetch"
    /\ UNCHANGED <<channels, store, fetch_log, last, listed, memo, upstream, pb>>

\* fetch_channel_data: one attempt whose request succeeds; returns response.json()
FetchOk(body) ==
    /\ pc = "fetch"
    /\ Cardinality(programs) + NewRows(body, cur.channel_id, cur.day) <= MaxPrograms
    /\ cur' = [cur EXCEPT !.hist = Append(@, [ok |-> TRUE, body |-> body]), !.data = body,
                           !.fresh = Fresh(body, cur.channel_id, cur.day)]
    /\ pc' = "fetched"
    /\ UNCHANGED <<channels, store, fetch_log, last, run, listed, memo, upstream, pb>>

\* The failed attempt as it would be with wait_time = attempt * 2
FetchFailWaitFromZero ==
    /\ pc = "fetch"
    /\ IF cur.attempt < RETRY_COUNT - 1
       THEN /\ cur' = [cur EXCEPT !.hist = Append(@, [ok |-> FALSE, body |-> NoBody]),
                                   !.wait = cur.attempt * 2]
            /\ pc' = "backoff"
       ELSE /\ cur' = [cur EXCEPT !.hist = Append(@, [ok |-> FALSE, body |-> NoBody]),
                                   !.data = NoBody]
            /\ pc' = "fetched"
    /\ UNCHANGED <<channels, store, fetch_log, last, run, listed, memo, upstream, pb>>

\* The failed attempt as it would be with the test "attempt < retry_count"
FetchFailOneMore ==
    /\ pc = "fetch"
    /\ IF cur.attempt < RETRY_COUNT
       THEN /\ cur' = [cur EXCEPT !.hist = Append(@, [ok |-> FALSE, body |-> NoBody]),
                                   !.wait = (cur.attempt + 1) * 2]
            /\ pc' = "backoff"
       ELSE /\ cur' = [cur EXCEPT !.hist = Append(@, [ok |-> FALSE, body |-> NoBody]),
                                   !.data = NoBody]
            /\ pc' = "fetched"
    /\ UNCHANGED <<channels, store, fetch_log, last, run, listed, memo, upstream, pb>>

\* fetch_channel_data: one attempt that raises requests.RequestException
FetchFail ==
    /\ pc = "fetch"
    /\ IF cur.attempt < RETRY_COUNT - 1
       THEN /\ cur' = [cur EXCEPT !.hist = Append(@, [ok |-> FALSE, body |-> NoBody]),
                                   !.wait = (cur.attempt + 1) * 2]
            /\ pc' = "backoff"
       ELSE /\ cur' = [cur EXCEPT !.hist = Append(@, [ok |-> FALSE, body |-> NoBody]),
                                   !.data = NoBody]
            /\ pc' = "fetched"
    /\ UNCHANGED <<channels, store, fetch_log, last, run, listed, memo, upstream, pb>>

\* fetch_channel_data: sleep(wait_time), then the next attempt of the loop
Backoff ==
    /\ pc = "backoff"
    /\ cur' = [cur EXCEPT !.attempt = @ + 1, !.wait = 0]
    /\ pc' = "fetch"
    /\ UNCHANGED <<channels, store, fetch_log, last, run, listed, memo, upstream, pb>>

\* The else branch as it would be without its log_fetch call
LogFailureSkipped ==
    /\ pc = "fetched"
    /\ ~BodyTruthy(cur.data)
    /\ pc' = "ratelimit"
    /\ UNCHANGED <<channels, store, fetch_log, last, run, cur, listed, memo, upstream, pb>>

\* collect_daily_data: "if data:" is false; log_fetch(channel_id, date_str, False, 0, ...)
LogFailure ==
    /\ pc = "fetched"
    /\ ~BodyTruthy(cur.data)
    /\ fetch_log' = Append(fetch_log,
           LogRow(cur.channel_id, Ymd[cur.day], FALSE, 0, "Fetch failed"))
    /\ last' = Call("log_fetch", NoProgramData, "ok", 0)
    /\ pc' = "ratelimit"
    /\ UNCHANGED <<channels, store, run, cur, listed, memo, upstream, pb>>

\* parse_and_store_programs, up to its loop: data.get('programs', []) raises
\* AttributeError when data is a list, and nothing in the run catches it.
ParseStart ==
    /\ pc = "fetched"
    /\ BodyTruthy(cur.data)
    /\ IF cur.data.t = "list"
       THEN pc' = "raised" /\ cur' = cur
       ELSE pc' = "store" /\ cur' = [cur EXCEPT !.i = 1, !.stored_count = 0]
    /\ UNCHANGED <<channels, store, fetch_log, last, run, listed, memo, upstream, pb>>

\* The loop body as it would be if it counted every insert_program call
StoreProgramCountingAll ==
    LET pd == Item(cur.data, cur.i, cur.channel_id, cur.day)
        r == InsertProgramResult(Tables, pd)
    IN  /\ pc = "store"
        /\ cur.i <= Len(cur.data.items)
        /\ IF cur.data.items[cur.i].dict
           THEN /\ Commit(r.tx)
                /\ last' = Call("insert_program", pd, r.ret, 0)
                /\ listed' = Listed(r, pd)
                /\ cur' = [cur EXCEPT !.i = @ + 1, !.inserts = @ + 1,
                                       !.stored_count = @ + 1,
                                       !.errors = IF r.ret = "raised"
                                                  THEN Append(@, NotSubscriptable) ELSE @]
                /\ pc' = pc
           ELSE /\ pc' = "raised"
                /\ UNCHANGED <<store, last, listed, cur>>
        /\ UNCHANGED <<channels, fetch_log, run, memo, upstream, pb>>

\* parse_and_store_programs: one iteration of "for program in programs".  What
\* building program_data or insert_program raises is caught by "except Exception";
\* the handler calls program.get('title', 'Unknown'), which raises AttributeError
\* when the entry is not a dict, and nothing in the run catches that.
StoreProgram ==
    LET pd == Item(cur.data, cur.i, cur.channel_id, cur.day)
        r == InsertProgramResult(Tables, pd)
    IN  /\ pc = "store"
        /\ cur.i <= Len(cur.data.items)
        /\ IF cur.data.items[cur.i].dict
           THEN /\ Commit(r.tx)
                /\ last' = Call("insert_program", pd, r.ret, 0)
                /\ listed' = Listed(r, pd)
                /\ cur' = [cur EXCEPT !.i = @ + 1, !.inserts = @ + 1,
                                       !.stored_count = IF r.ret = "True" THEN @ + 1 ELSE @,
                                       !.errors = IF r.ret = "raised"
                                                  THEN Append(@, NotSubscriptable) ELSE @]
                /\ pc' = pc
           ELSE /\ pc' = "raised"
                /\ UNCHANGED <<store, last, listed, cur>>
        /\ UNCHANGED <<channels, fetch_log, run, memo, upstream, pb>>

\* collect_daily_data: log_fetch(channel_id, date_str, True, count)
LogSuccess ==
    /\ pc = "store"
    /\ cur.i > Len(cur.data.items)
    /\ fetch_log' = Append(fetch_log,
           LogRow(cur.channel_id, Ymd[cur.day], TRUE, cur.stored_count, ""))
    /\ last' = Call("log_fetch", NoProgramData, "ok", 0)
    /\ run' = [run EXCEPT !.date_programs = @ + cur.stored_count]
    /\ pc' = "ratelimit"
    /\ UNCHANGED <<channels, store, cur, listed, memo, upstream, pb>>

\* collect_daily_data: sleep(1), then the next channel, the next date, or return
RateLimit ==
    /\ pc = "ratelimit"
    /\ IF run.ci < Len(CHANNELS)
       THEN /\ run' = [run EXCEPT !.ci = @ + 1, !.units = @ + 1]
            /\ cur' = Unit(run.ci + 1, run.date + run.day_offset)
            /\ pc' = "fetch"
       ELSE IF run.day_offset < run.days_ahead
       THEN /\ run' = [run EXCEPT !.ci = 1, !.day_offset = @ + 1, !.units = @ + 1,
                                   !.total_programs = @ + run.date_programs,
                                   !.date_programs = 0]
            /\ cur' = Unit(1, run.date + run.day_offset + 1)
            /\ pc' = "fetch"
       ELSE /\ run' = [run EXCEPT !.units = @ + 1,
                                   !.total_programs = @ + run.date_programs,
                                   !.date_programs = 0]
            /\ cur' = NoUnit
            /\ pc' = "returned"
    /\ UNCHANGED <<channels, store, fetch_log, last, listed, memo, upstream, pb>>

\* cleanup_old_data(): cleanup_old_programs() with the default days_to_keep; what
\* it raises ends the process.
CleanupOldData(days_to_keep, today) ==
    LET r == CleanupResult(Tables, days_to_keep, today)
    IN  /\ pc = "returned"
        /\ Commit(r.tx)
        /\ last' = [Call("cleanup_old_programs", NoProgramData,
                          IF r.ret < 0 THEN "raised" ELSE "ok",
                          IF r.ret < 0 THEN 0 ELSE r.ret)
                     EXCEPT !.cutoff = today - days_to_keep]
        /\ pc' = IF r.ret < 0 THEN "raised" ELSE "idle"
        /\ UNCHANGED <<channels, fetch_log, run, cur, listed, memo, upstream, pb>>

\* The process ends after a completed run; the store file stays.
Exit ==
    /\ pc = "returned"
    /\ pc' = "idle"
    /\ UNCHANGED <<channels, store, fetch_log, last, run, cur, listed, memo, upstream, pb>>

Next ==
    \/ UpdateChannels
    \/ \E date \in 1 .. 2, days_ahead \in 0 .. MaxDaysAhead : CollectStart(date, days_ahead)
    \/ \E body \in Bodies : FetchOk(body)
    \/ FetchFail
    \/ Backoff
    \/ LogFailure
    \/ ParseStart
    \/ StoreProgram
    \/ LogSuccess
    \/ RateLimit
    \/ \E today \in Days : CleanupOldData(2, today)
    \/ Exit

Spec == Init /\ [][Next]_vars

-----------------------------------------------------------------------------
(* _get_program_id called directly, among calls that change the store *)

\* RawB with other genre and director: the same channel, date, title and start
RawB2 == [RawB EXCEPT !.genre = News, !.director = Bob]

\* RawB with the title "b_c" in place of "b c"
RawB3 == [RawB EXCEPT !.name = PyStr(<<"b", "_", "c">>)]

IdInputs == {RawA, RawB, RawB2, RawB3}

\* _get_program_id(program, channel_id, date_str), with the number of stored
\* programs at the time of the call
GetId(program, channel_id, day) ==
    /\ pc = "idle"
    /\ memo' = memo \cup {[program |-> program, channel_id |-> channel_id, day |-> day,
                            rows |-> Cardinality(programs),
                            id |-> GetProgramId(program, channel_id, <<Ymd[day]>>)]}
    /\ UNCHANGED <<channels, store, fetch_log, last, pc, run, cur, listed, upstream, pb>>

IdNext ==
    \/ \E program \in IdInputs : GetId(program, 1, 1)
    \/ \E program \in {RawA, RawB} : InsertProgram(ProgramData(program, 1, <<Ymd[1]>>))

SpecId == Init /\ [][IdNext]_vars

-----------------------------------------------------------------------------
(* Properties of the store (SpecStore) *)

\* The rows of programs that carry the external ID of pd
RowsOf(rows, pd) == {p \in rows : p.external_id = pd.external_id}

\* The columns of row p are the fields of pd
RowHolds(p, pd) ==
    /\ p.external_id = pd.external_id /\ p.channel_id = pd.channel_id
    /\ p.title = pd.title /\ p.start_time = pd.start_time /\ p.end_time = pd.end_time

\* This step is a call of the TVDatabase method op
Calls(op) == last'.flip # last.flip /\ last'.op = op

\* C1: insert_program of a well-formed record whose external ID is not stored
\* returns True and leaves exactly one row with that external ID; the same call
\* made again returns False and changes no row of programs, genres, people,
\* program_genres or program_people.
C1_InsertTwice ==
    [][Calls("insert_program") =>
        LET pd == last'.pd
        IN  /\ (WellFormed(pd) /\ pd.external_id # None /\ RowsOf(programs, pd) = {})
                  => /\ last'.ret = "True"
                     /\ Cardinality(RowsOf(programs', pd)) = 1
                     /\ \A p \in RowsOf(programs', pd) : RowHolds(p, pd)
            /\ (last.op = "insert_program" /\ last.ret = "True" /\ last.pd = pd
                   /\ pd.external_id # None)
                  => /\ last'.ret = "False"
                     /\ Cardinality(RowsOf(programs', pd)) = 1
                     /\ UNCHANGED store]_vars

\* C1 witness: a second, identical insert_program has returned False
C1_Witness ==
    /\ last.op = "insert_program" /\ last.ret = "False"
    /\ WellFormed(last.pd) /\ last.pd.external_id # None
    /\ \E p \in programs : RowHolds(p, last.pd)
    /\ program_genres # {} /\ program_people # {}

\* C2: no two rows of programs carry the same external ID value.
C2_UniqueExternalId ==
    \A p, q \in programs :
        (p.external_id = q.external_id /\ p.external_id # None) => p = q

\* C2 witness: a record with a stored external ID and other fields was offered
\* again, with another row in the table
C2_Witness ==
    /\ last.op = "insert_program" /\ last.ret = "False" /\ WellFormed(last.pd)
    /\ \E p \in RowsOf(programs, last.pd) : ~RowHolds(p, last.pd)
    /\ Cardinality(programs) = 2

\* The programs a cleanup with the cutoff day removes
Old(rows, cutoff) == {p \in rows : \E d \in SqlDate(p.start_time) : d < cutoff}

\* C7: cleanup_old_programs completes without error, deletes exactly the rows
\* whose start date is earlier than the cutoff, and returns how many it deleted.
C7_Claim ==
    [][Calls("cleanup_old_programs") =>
        /\ last'.ret = "ok"
        /\ programs' = programs \ Old(programs, last'.cutoff)
        /\ last'.n = Cardinality(Old(programs, last'.cutoff))]_vars

ListedGenres(e) == {e.genres[k] : k \in 1 .. Len(e.genres)}
ListedPeople(e) == {e.people[k].name : k \in 1 .. Len(e.people)}

\* C9: every genre (person) name a committed insert_program listed has exactly
\* one row in genres (people), and every program that listed it has its own
\* link row to that one row.
C9_LookupDedup ==
    /\ \A g1, g2 \in genres : g1.name = g2.name => g1 = g2
    /\ \A q1, q2 \in people : q1.name = q2.name => q1 = q2
    /\ \A e \in listed :
          /\ \A name \in ListedGenres(e) :
                /\ Cardinality({g \in genres : g.name = name}) = 1
                /\ \E g \in genres :
                      /\ g.name = name
                      /\ [program_id |-> e.program_id, genre_id |-> g.id] \in program_genres
          /\ \A k \in 1 .. Len(e.people) :
                /\ Cardinality({q \in people : q.name = e.people[k].name}) = 1
                /\ \E q \in people :
                      /\ q.name = e.people[k].name
                      /\ [program_id |-> e.program_id, person_id |-> q.id,
                          role |-> e.people[k].role] \in program_people

\* C9 witness: two programs listed the same genre and the same person; there
\* are one genres row and one people row for them, and two link rows each
C9_Witness ==
    \E e1, e2 \in listed :
        /\ e1.program_id # e2.program_id
        /\ Drama \in ListedGenres(e1) \cap ListedGenres(e2)
        /\ Ann \in ListedPeople(e1) \cap ListedPeople(e2)
        /\ \E g \in genres :
              /\ g.name = Drama
              /\ Cardinality({l \in program_genres : l.genre_id = g.id}) = 2
        /\ \E q \in people :
              /\ q.name = Ann
              /\ Cardinality({l \in program_people : l.person_id = q.id}) = 2

-----------------------------------------------------------------------------
(* Properties of a collector run (Spec) *)

\* Every HTTP attempt of the unit so far has failed
AllFailed == cur.hist # <<>> /\ \A k \in 1 .. Len(cur.hist) : ~cur.hist[k].ok

\* The last attempt of the unit succeeded
Succeeded == cur.hist # <<>> /\ cur.hist[Len(cur.hist)].ok

\* The last row of fetch_log
LastLog == fetch_log[Len(fetch_log)]

\* Program row p is linked to every genre and person that pd lists
Linked(p, pd) ==
    /\ \A k \in 1 .. Len(pd.genres) :
          \E g \in genres :
              /\ g.name = pd.genres[k]
              /\ [program_id |-> p.id, genre_id |-> g.id] \in program_genres
    /\ \A k \in 1 .. Len(pd.people) :
          \E q \in people :
              /\ q.name = pd.people[k].name
              /\ [program_id |-> p.id, person_id |-> q.id, role |-> pd.people[k].role]
                    \in program_people

\* The unit's response was stored whole and logged as a success
StoredAndLogged ==
    /\ Len(fetch_log) = cur.log0 + 1
    /\ LastLog = LogRow(cur.channel_id, Ymd[cur.day], TRUE, Len(cur.data.items), "")
    /\ \A k \in 1 .. Len(cur.data.items) :
          \E p \in programs :
              /\ RowHolds(p, Item(cur.data, k, cur.channel_id, cur.day))
              /\ Linked(p, Item(cur.data, k, cur.channel_id, cur.day))

\* C3: when the response is a list of N well-formed, previously unseen records,
\* the unit ends with N program rows stored, each linked to its genres and
\* people, and one fetch_log row with success = true and programs_count = N.
C3_Claim ==
    (cur.data.t = "list" /\ cur.data.items # <<>> /\ cur.fresh
       /\ pc \in {"ratelimit", "raised"})
    => (pc = "ratelimit" /\ StoredAndLogged)

\* The (channel, date) pair that follows the current one is being fetched, or
\* the run has returned after the last pair
NextPair ==
    IF run.ci < Len(CHANNELS)
    THEN pc' = "fetch" /\ cur'.channel_id = CHANNELS[run.ci + 1] /\ cur'.day = cur.day
    ELSE IF run.day_offset < run.days_ahead
    THEN pc' = "fetch" /\ cur'.channel_id = CHANNELS[1] /\ cur'.day = cur.day + 1
    ELSE pc' = "returned"

\* C4: when every HTTP attempt of a pair fails, the fetcher returns after
\* RETRY_COUNT attempts, insert_program is not called and the store is not
\* written, exactly one fetch_log row (success = false, programs_count = 0) is
\* appended, and the run goes on to the next pair.
C4_FailedFetch ==
    [][/\ (pc = "fetched" /\ AllFailed)
          => /\ Len(cur.hist) = RETRY_COUNT
             /\ pc' = "ratelimit"
             /\ fetch_log' = Append(fetch_log,
                    LogRow(cur.channel_id, Ymd[cur.day], FALSE, 0, "Fetch failed"))
             /\ UNCHANGED store
       /\ (pc = "ratelimit" /\ AllFailed)
          => /\ cur.inserts = 0
             /\ Len(fetch_log) = cur.log0 + 1
             /\ NextPair]_vars

\* C4 witness: a pair whose three attempts failed has been logged as failed
C4_Witness ==
    /\ pc = "ratelimit" /\ AllFailed /\ Len(cur.hist) = RETRY_COUNT
    /\ LastLog = LogRow(cur.channel_id, Ymd[cur.day], FALSE, 0, "Fetch failed")
    /\ run.ci < Len(CHANNELS)

\* C5: fetch_channel_data makes at most RETRY_COUNT requests, makes none after
\* a successful one and returns its body, and returns None once RETRY_COUNT
\* attempts have failed.
C5_FetchBounded ==
    /\ Len(cur.hist) <= RETRY_COUNT
    /\ \A k \in 1 .. Len(cur.hist) - 1 : ~cur.hist[k].ok
    /\ Succeeded => (pc \in {"fetched", "store", "ratelimit", "raised"}
                     /\ cur.data = cur.hist[Len(cur.hist)].body)
    /\ (AllFailed /\ Len(cur.hist) = RETRY_COUNT)
          => (pc \in {"fetched", "ratelimit"} /\ cur.data = NoBody)
    /\ pc \in {"fetched", "store", "ratelimit"}
          => (Succeeded \/ Len(cur.hist) = RETRY_COUNT)

\* C5 witness: the third attempt succeeded after two failures and its body,
\* which holds programs, was returned
C5_Witness ==
    /\ pc = "fetched" /\ Len(cur.hist) = RETRY_COUNT /\ Succeeded
    /\ cur.data.items # <<>> /\ cur.data = cur.hist[RETRY_COUNT].body

\* C6: a successful fetch whose response holds no programs is logged with
\* success = true and programs_count = 0; only a fetch whose attempts all
\* failed is logged with success = false.
C6_Claim ==
    pc = "ratelimit" =>
        /\ (Succeeded /\ cur.data.items = <<>>)
              => (LastLog.success /\ LastLog.programs_count = 0)
        /\ ~LastLog.success => AllFailed

-----------------------------------------------------------------------------
(* Properties of _get_program_id (SpecId) *)

\* Two raw records have the same title and start time, as _get_program_id reads them
SameTitleAndStart(a, b) ==
    /\ a.title = b.title /\ a.name = b.name
    /\ a.startTime = b.startTime /\ a.start = b.start

\* C10: calls of _get_program_id for records without a native id and with the
\* same channel, date, title and start time return the same external ID,
\* whatever the store held at the time of each call; for a record with a
\* native id the result is that id as a string.
C10_DeterministicId ==
    /\ \A a, b \in memo :
          (~Has(a.program.id) /\ ~Has(b.program.id)
             /\ a.channel_id = b.channel_id /\ a.day = b.day
             /\ SameTitleAndStart(a.program, b.program))
          => a.id = b.id
    /\ \A a \in memo :
          Has(a.program.id) => a.id = PyStr(<<ToString(a.program.id.n)>>)

\* C10 witness: the id of one (channel, date, title, start) was computed for
\* two different records and with different store contents, and the id of a
\* record with a native id was computed
C10_Witness ==
    /\ \E a, b \in memo :
          /\ ~Has(a.program.id) /\ a.program # b.program /\ a.rows # b.rows
          /\ SameTitleAndStart(a.program, b.program)
          /\ a.id = PyStr(<<"1", "_", "20250101", "_", "b", "_", "c", "_", "2">>)
    /\ \E a \in memo : Has(a.program.id)

-----------------------------------------------------------------------------
(* Properties of the store (SpecStore), continued *)

\* Every program a committed insert_program stored has a link row for each
\* genre and each person its record listed
ListedAreLinked ==
    \A e \in listed :
        /\ \A k \in 1 .. Len(e.genres) :
              \E g \in genres :
                  /\ g.name = e.genres[k]
                  /\ [program_id |-> e.program_id, genre_id |-> g.id] \in program_genres
        /\ \A k \in 1 .. Len(e.people) :
              \E q \in people :
                  /\ q.name = e.people[k].name
                  /\ [program_id |-> e.program_id, person_id |-> q.id,
                      role |-> e.people[k].role] \in program_people

\* C11: an insert_program call that raises after its programs INSERT leaves
\* programs, genres, people, both link tables and the row counters as they were
\* before the call (no program row, no link row, no lookup row of the call
\* stays); after every step, each stored program of a committed call has all
\* the genre and person links its record listed.
C11_InsertAtomic ==
    [][/\ (Calls("insert_program") /\ last'.ret = "raised") => UNCHANGED store
       /\ (Calls("insert_program") /\ last'.ret = "True")
             => \E p \in programs' \ programs :
                    /\ RowHolds(p, last'.pd)
                    /\ [program_id |-> p.id, genres |-> last'.pd.genres,
                        people |-> last'.pd.people] \in listed'
       /\ ListedAreLinked']_vars

\* C11 witness: a call failed while linking its second genre, after its
\* programs INSERT and after creating the lookup row of its first genre; no row
\* of the call is in the store, and an earlier program is there with its links
C11_Witness ==
    /\ last.op = "insert_program" /\ last.ret = "raised"
    /\ Len(last.pd.genres) = 2 /\ last.pd.genres[1] = News /\ last.pd.genres[2] = None
    /\ ~IntegrityError(Tables, last.pd)
    /\ RowsOf(programs, last.pd) = {}
    /\ \A g \in genres : g.name # News
    /\ programs # {} /\ program_genres # {} /\ program_people # {}

-----------------------------------------------------------------------------
(* Properties of a collector run (Spec), continued *)

\* C12: a (channel, date) unit that has ended has written exactly one fetch_log
\* row: (success = false, programs_count = 0) when every attempt failed, and
\* (success = true, programs_count = the stored count) when the fetch succeeded,
\* whatever became of the single programs.
C12_Claim ==
    (cur.channel_id # 0 /\ pc \in {"ratelimit", "raised"}) =>
        /\ Len(fetch_log) = cur.log0 + 1
        /\ AllFailed => LastLog = LogRow(cur.channel_id, Ymd[cur.day], FALSE, 0, "Fetch failed")
        /\ Succeeded => LastLog = LogRow(cur.channel_id, Ymd[cur.day], TRUE, cur.stored_count, "")

\* The entry cannot be normalised or stored: it is not a JSON object, it lacks
\* a NOT NULL field, or it lists a genre or person without a name
Failing(item, pd) == ~item.dict \/ ~WellFormed(pd)

\* C13: in the loop of parse_and_store_programs, an entry that fails to be
\* normalised or stored changes no table, every other entry is stored exactly
\* as insert_program stores it on its own (a row with its fields and links,
\* unless its external ID is stored already), and after each entry the loop is
\* at the next one: no failure leaves parse_and_store_programs.
C13_Claim ==
    [][(pc = "store" /\ cur.i <= Len(cur.data.items)) =>
        LET item == cur.data.items[cur.i]
            pd == Item(cur.data, cur.i, cur.channel_id, cur.day)
        IN  /\ pc' = "store" /\ cur'.i = cur.i + 1
            /\ Failing(item, pd) => UNCHANGED store
            /\ (~Failing(item, pd) /\ RowsOf(programs, pd) = {})
                  => /\ \E p \in programs' \ programs :
                            /\ RowHolds(p, pd)
                            /\ [program_id |-> p.id, genres |-> pd.genres,
                                people |-> pd.people] \in listed'
                     /\ ListedAreLinked'
            /\ (~Failing(item, pd) /\ RowsOf(programs, pd) # {}) => UNCHANGED store]_vars

\* C14: once a unit in which storing a program raised an error has been logged,
\* fetch_log holds, for each such error, a row of the unit's channel and date
\* whose error_message is the text of that error.
C14_Claim ==
    (pc = "ratelimit" /\ cur.errors # <<>>) =>
        \A e \in 1 .. Len(cur.errors) :
            \E k \in cur.log0 + 1 .. Len(fetch_log) :
                /\ fetch_log[k].channel_id = cur.channel_id
                /\ fetch_log[k].date = Ymd[cur.day]
                /\ fetch_log[k].error_message = cur.errors[e]

\* C15: every program row the collector stored whose start and end are both
\* timestamps holds as its duration the whole minutes from start to end (90
\* for 20:00 to 21:30), whatever the upstream duration or length field said; a
\* row whose start or end is no timestamp holds the duration 0.
C15_Claim ==
    \A p \in programs :
        IF IsIso(p.start_time) /\ IsIso(p.end_time)
        THEN p.duration = PyInt(MinuteOf(p.end_time) - MinuteOf(p.start_time))
        ELSE p.duration = PyInt(0)

-----------------------------------------------------------------------------
(* Runs of collect_daily_data that are interrupted and repeated *)

\* The day and the channels of the repeated run
RerunDay == 1

\* What the upstream holds for a pair: program lists with a duplicate, a failing
\* record, a non-dict entry, a JSON array, an empty object, or a failing endpoint
RerunBodies ==
    {Body("dict", TRUE, FALSE, items) :
        items \in {<<RawA, RawB>>, <<RawD, RawA>>, <<RawB, RawB2>>, <<RawA, RawNull>>, <<RawC>>}}
    \cup {Body("list", FALSE, FALSE, <<RawA>>), Body("dict", FALSE, FALSE, <<>>), NoBody}

\* The upstream's answer for the pair, if the pair was asked before
HeldIn(up, channel_id, day) == {u \in up : u.channel_id = channel_id /\ u.day = day}
Held(channel_id, day) == HeldIn(upstream, channel_id, day)

\* fetch_channel_data returns what the upstream holds for the pair (None where
\* its endpoint fails); the upstream holds the same in every run
FetchSame(body) ==
    /\ pc = "fetch"
    /\ IF Held(cur.channel_id, cur.day) = {}
       THEN /\ Cardinality(programs) + NewRows(body, cur.channel_id, cur.day) <= MaxPrograms
            /\ upstream' = upstream \cup
                   {[channel_id |-> cur.channel_id, day |-> cur.day, body |-> body]}
       ELSE /\ \E u \in Held(cur.channel_id, cur.day) : u.body = body
            /\ upstream' = upstream
    /\ cur' = [cur EXCEPT !.hist = Append(@, [ok |-> body # NoBody, body |-> body]),
                           !.data = body,
                           !.fresh = Fresh(body, cur.channel_id, cur.day)]
    /\ pc' = "fetched"
    /\ UNCHANGED <<channels, store, fetch_log, last, run, listed, memo, pb>>

\* The process is killed during a run, or has died of an uncaught exception:
\* what was committed stays in the store file
Interrupt ==
    /\ pc \in {"fetch", "fetched", "store", "ratelimit", "raised"}
    /\ pc' = "idle"
    /\ run' = NoRun
    /\ cur' = NoUnit
    /\ UNCHANGED <<channels, store, fetch_log, last, listed, memo, upstream, pb>>

RerunNext ==
    \/ CollectStart(RerunDay, 0)
    \/ \E body \in RerunBodies : FetchSame(body)
    \/ LogFailure
    \/ ParseStart
    \/ StoreProgram
    \/ LogSuccess
    \/ RateLimit
    \/ Interrupt
    \/ Exit

SpecRerun == Init /\ [][RerunNext]_vars

\* The tables of a new store
NoTables ==
    [programs |-> {}, genres |-> {}, people |-> {}, program_genres |-> {},
     program_people |-> {}, seq |-> [programs |-> 0, genres |-> 0, people |-> 0],
     raised |-> FALSE]

\* parse_and_store_programs run without interruption over the entries k, k+1, ...
\* of a response: the tables it leaves, raised set when an exception leaves it
RECURSIVE StoredFrom(_, _, _, _, _)
StoredFrom(tx, data, k, channel_id, day) ==
    IF k > Len(data.items) THEN tx
    ELSE IF ~data.items[k].dict THEN [tx EXCEPT !.raised = TRUE]
    ELSE StoredFrom(InsertProgramResult(tx, Item(data, k, channel_id, day)).tx,
                    data, k + 1, channel_id, day)

\* collect_daily_data run without interruption over the channels ci, ci+1, ...
\* against the upstream up
RECURSIVE SingleRun(_, _, _, _)
SingleRun(up, tx, ci, day) ==
    IF ci > Len(CHANNELS) \/ tx.raised \/ HeldIn(up, CHANNELS[ci], day) = {} THEN tx
    ELSE LET data == (CHOOSE u \in HeldIn(up, CHANNELS[ci], day) : TRUE).body
         IN  IF ~BodyTruthy(data) THEN SingleRun(up, tx, ci + 1, day)
             ELSE IF data.t = "list" THEN [tx EXCEPT !.raised = TRUE]
             ELSE SingleRun(up, StoredFrom(tx, data, 1, CHANNELS[ci], day), ci + 1, day)

\* C16: whenever a run ends, after any number of runs that were interrupted
\* between commits or completed, programs, genres, people and both link tables
\* are those one uninterrupted run against the same upstream data leaves in a
\* new store (so repeating a completed run changes none of them); fetch_log
\* only grows by appended rows.
C16_RerunIdempotent ==
    [][/\ pc' \in {"returned", "raised"} =>
             LET one == SingleRun(upstream', NoTables, 1, RerunDay)
             IN  /\ programs' = one.programs
                 /\ genres' = one.genres
                 /\ people' = one.people
                 /\ program_genres' = one.program_genres
                 /\ program_people' = one.program_people
       /\ Len(fetch_log') >= Len(fetch_log)
       /\ SubSeq(fetch_log', 1, Len(fetch_log)) = fetch_log]_vars

\* The sum of programs_count over the first k rows of fetch_log
RECURSIVE Counted(_)
Counted(k) == IF k = 0 THEN 0 ELSE fetch_log[k].programs_count + Counted(k - 1)

\* C16 witness: a full run has returned after a run that was interrupted between
\* two commits (it stored a program and logged nothing: the log counts fewer
\* programs than the store holds), and two programs with their links are stored
C16_Witness ==
    /\ pc = "returned"
    /\ Len(fetch_log) = NumChannels
    /\ Cardinality(programs) = 2
    /\ Counted(Len(fetch_log)) < 2
    /\ program_genres # {} /\ program_people # {}

-----------------------------------------------------------------------------
(* pocketbase_collector.py: main and collect_daily_data *)

\* A raw program of the upstream, as store_program reads it
PBRaw(id, name, start, stop, series_id) ==
    [dict |-> TRUE, id |-> id, name |-> name, start |-> start, stop |-> stop,
     series_id |-> series_id]

\* 20:00 to 21:30 as unix seconds of day 1 (the model's epoch is day 1, 00:00)
PBStart == 72000
PBStop == 77400

\* A program that belongs to no series, an episode of series 5 that ends half
\* a minute later, a program whose series_id is null, and a list entry that is
\* not a JSON object.
PBPlain == PBRaw(PyInt(1), PyStr(<<"a">>), PyInt(PBStart), PyInt(PBStop), Absent)
PBEpisode == PBRaw(PyInt(2), PyStr(<<"s">>), PyInt(PBStart), PyInt(PBStop + 30), PyInt(5))
PBNullSeries == PBRaw(PyInt(3), PyStr(<<"n">>), PyInt(PBStart), PyInt(PBStop), None)
PBNull == [PBRaw(Absent, Absent, Absent, Absent, Absent) EXCEPT !.dict = FALSE]

PBItems == {PBPlain, PBEpisode, PBNullSeries, PBNull}
PBLists == UNION {[1 .. n -> PBItems] : n \in 0 .. MaxBatch}

\* convert_timestamp(timestamp): the instant, to the second, that the text
\* '%Y-%m-%d %H:%M:%S' it returns denotes
ConvertTimestamp(v) == v.n

\* int((end_dt - start_dt).total_seconds() / 60): int() truncates toward zero
Duration(start, end) ==
    IF end >= start THEN (end - start) \div 60 ELSE 0 - ((start - end) \div 60)

\* x > 0 raises TypeError when x is None or a str
Comparable(v) == v.t = "int"

\* store_program(program, channel_id) raises: program is not a dict, a
\* timestamp is not a number, or series_id is not a number
StoreProgramRaises(program) ==
    \/ ~program.dict
    \/ GetOr(program.start, PyInt(0)).t # "int"
    \/ GetOr(program.stop, PyInt(0)).t # "int"
    \/ ~Comparable(GetOr(program.series_id, PyInt(0)))

\* The program_data dict store_program sends to the store
PBProgramData(program, channel_id) ==
    LET start_time == ConvertTimestamp(GetOr(program.start, PyInt(0)))
        end_time == ConvertTimestamp(GetOr(program.stop, PyInt(0)))
        series_id == GetOr(program.series_id, PyInt(0))
    IN  [id |-> Format(Get(program.id)),
         channel |-> channel_id,
         name |-> GetOr(program.name, PyStr(<<>>)),
         start_time |-> start_time,
         end_time |-> end_time,
         duration |-> Duration(start_time, end_time),
         is_series |-> series_id.n > 0,
         series |-> IF series_id.n > 0 THEN Format(series_id) ELSE <<>>]

\* The programs collection after store_program has looked the id up and sent a
\* create (no record found) or a patch-update (the record's series relation
\* stays when the new data names none), with a store that answers (up) or not
StoreRecord(collection, rec, up) ==
    LET existing == {r \in collection : r.id = rec.id}
        old == CHOOSE r \in existing : TRUE
    IN  IF ~up THEN collection
        ELSE IF existing = {} THEN collection \cup {rec}
        ELSE (collection \ existing)
             \cup {IF rec.is_series THEN rec ELSE [rec EXCEPT !.series = old.series]}

\* The series collection after update_series(series_id, program_name)
StoreSeries(collection, series_id, program_name, up) ==
    LET existing == {r \in collection : r.id = series_id}
    IN  IF ~up THEN collection
        ELSE IF existing = {}
        THEN collection \cup {[id |-> series_id, name |-> program_name, episode_count |-> 0]}
        ELSE {IF r.id = series_id THEN [r EXCEPT !.name = program_name] ELSE r :
                 r \in collection}

\* The date of the unit: (today + timedelta(days=day_offset)).strftime("%Y%m%d")
PBDate == Ymd[1 + pb.day_offset]

\* The next (channel, date) pair of the loops of collect_daily_data, or the
\* return of collect_daily_data and of main
PBAdvance(st) ==
    IF st.ci < Len(CHANNELS) THEN [st EXCEPT !.ci = @ + 1, !.pc = "fetch"]
    ELSE IF st.day_offset < st.days_ahead
    THEN [st EXCEPT !.ci = 1, !.day_offset = @ + 1, !.pc = "fetch"]
    ELSE [st EXCEPT !.pc = "exited", !.status = 0]

PBFrame ==
    UNCHANGED <<channels, store, fetch_log, last, pc, run, cur, listed, memo, upstream>>

\* for series_id, program_name in series_map.items(): update_series(...)
RECURSIVE UpdateAllSeries(_, _, _)
UpdateAllSeries(collection, series_map, up) ==
    IF series_map = {} THEN collection
    ELSE LET s == CHOOSE s \in series_map : TRUE
         IN  UpdateAllSeries(StoreSeries(collection, s.id, s.name, up), series_map \ {s}, up)

\* main(): the credentials check, before anything else is constructed
PBMain(admin_email, admin_password) ==
    /\ pb.pc = "start"
    /\ pb' = IF ~admin_email \/ ~admin_password
             THEN [pb EXCEPT !.pc = "exited", !.status = 1,
                             !.admin_email = admin_email, !.admin_password = admin_password]
             ELSE [pb EXCEPT !.pc = "auth",
                             !.admin_email = admin_email, !.admin_password = admin_password]
    /\ PBFrame

\* PocketBaseClient.__init__: authenticate_admin posts the credentials; a
\* RequestException is logged and the client goes on without a token
PBAuthenticate(ok) ==
    /\ pb.pc = "auth"
    /\ pb' = [pb EXCEPT !.pc = "cmd", !.admin_token = ok, !.requested = TRUE]
    /\ PBFrame

\* main(): --help or an unknown command prints and returns
PBHelp ==
    /\ pb.pc = "cmd"
    /\ pb' = [pb EXCEPT !.pc = "exited", !.status = 0]
    /\ PBFrame

\* main() without arguments: collect_daily_data(days_ahead) up to its loops;
\* get_records returns [] when the store does not answer, and the run returns
PBCollectStart(days_ahead, up) ==
    /\ pb.pc = "cmd"
    /\ (days_ahead + 1) * NumChannels <= MaxLog
    /\ pb' = IF ~up
             THEN [pb EXCEPT !.pc = "exited", !.status = 0, !.requested = TRUE]
             ELSE [pb EXCEPT !.pc = "fetch", !.days_ahead = days_ahead, !.day_offset = 0,
                             !.ci = 1, !.requested = TRUE]
    /\ PBFrame

\* fetch_channel_programs fails: a RequestException, or a response that is no list
PBFetchFail ==
    /\ pb.pc = "fetch"
    /\ pb' = [pb EXCEPT !.pc = "failed", !.timeline = Append(@, "fetch"),
                        !.requested = TRUE, !.programs = <<>>]
    /\ PBFrame

\* fetch_channel_programs returns (True, data)
PBFetchOk(data) ==
    /\ pb.pc = "fetch"
    /\ pb' = [pb EXCEPT !.pc = "store", !.timeline = Append(@, "fetch"),
                        !.requested = TRUE, !.programs = data, !.i = 1,
                        !.stored = 0, !.series_map = {}]
    /\ PBFrame

\* collect_daily_data: "if not success": log_fetch(..., False, 0, ...) and continue
PBLogFailure(up) ==
    /\ pb.pc = "failed"
    /\ pb' = PBAdvance([pb EXCEPT
                 !.fetch_logs =
                     IF up THEN Append(@, LogRow(CHANNELS[pb.ci], PBDate, FALSE, 0,
                                                 "Failed to fetch data"))
                     ELSE @,
                 !.created = IF up THEN Append(@, pb.now) ELSE @])
    /\ PBFrame

\* collect_daily_data: one iteration of "for program in programs": store_program,
\* then the series bookkeeping; what they raise is caught nowhere
PBStoreProgram(up) ==
    LET program == pb.programs[pb.i]
        rec == PBProgramData(program, CHANNELS[pb.ci])
        series_id == GetOr(program.series_id, PyInt(0))
    IN  /\ pb.pc = "store"
        /\ pb.i <= Len(pb.programs)
        /\ pb' = IF StoreProgramRaises(program)
                 THEN [pb EXCEPT !.pc = "raised", !.status = 1,
                                 !.requested = TRUE]
                 ELSE [pb EXCEPT !.records = StoreRecord(@, rec, up),
                                 !.wrote = IF ~up THEN @
                                           ELSE [id |-> rec.id,
                                                 kind |-> IF \E r \in pb.records : r.id = rec.id
                                                          THEN "update" ELSE "create"],
                                 !.stored = IF up THEN @ + 1 ELSE @,
                                 !.series_map =
                                     IF series_id.n > 0
                                     THEN {s \in @ : s.id # Format(series_id)}
                                          \cup {[id |-> Format(series_id),
                                                 name |-> GetOr(program.name, PyStr(<<>>))]}
                                     ELSE @,
                                 !.i = @ + 1]
        /\ PBFrame

\* collect_daily_data after the program loop: update_series for every tracked
\* series, then log_fetch(channel_id, date_str, True, stored, None, duration_ms)
PBLogSuccess(up) ==
    /\ pb.pc = "store"
    /\ pb.i > Len(pb.programs)
    /\ pb' = [pb EXCEPT
                 !.series = UpdateAllSeries(@, pb.series_map, up),
                 !.fetch_logs =
                     IF up THEN Append(@, LogRow(CHANNELS[pb.ci], PBDate, TRUE, pb.stored, ""))
                     ELSE @,
                 !.created = IF up THEN Append(@, pb.now) ELSE @,
                 !.pc = "sleep"]
    /\ PBFrame

\* collect_daily_data: sleep(1.0), then the next pair or the return
PBSleep ==
    /\ pb.pc = "sleep"
    /\ pb' = PBAdvance([pb EXCEPT !.timeline = Append(@, "sleep")])
    /\ PBFrame

PBNext ==
    \/ \E admin_email, admin_password \in BOOLEAN : PBMain(admin_email, admin_password)
    \/ \E ok \in BOOLEAN : PBAuthenticate(ok)
    \/ PBHelp
    \/ \E days_ahead \in 0 .. MaxDaysAhead, up \in BOOLEAN : PBCollectStart(days_ahead, up)
    \/ PBFetchFail
    \/ \E data \in PBLists : PBFetchOk(data)
    \/ \E up \in BOOLEAN : PBLogFailure(up)
    \/ \E up \in BOOLEAN : PBStoreProgram(up)
    \/ \E up \in BOOLEAN : PBLogSuccess(up)
    \/ PBSleep

SpecPB == Init /\ [][PBNext]_vars

-----------------------------------------------------------------------------
(* Properties of the remote-store collector (SpecPB) and of both collectors *)

\* C17: in the run's order of schedule fetches and rate-limit sleeps, every
\* fetch that is followed by anything is followed by a sleep: no two fetches
\* are issued without a sleep between them, whether the first succeeded or
\* failed.
C17_Claim ==
    \A k \in 1 .. Len(pb.timeline) - 1 :
        pb.timeline[k] = "fetch" => pb.timeline[k + 1] = "sleep"

\* C18: once main has run without the admin email or the admin password, the
\* process has exited with status 1 and has issued no request to the upstream
\* or to the record store; in no other case is a collector's run ended by a
\* failure: neither collector is ever stopped by an uncaught exception.
C18_Claim ==
    /\ (pb.pc # "start" /\ (~pb.admin_email \/ ~pb.admin_password))
          => (pb.pc = "exited" /\ pb.status = 1 /\ ~pb.requested)
    /\ pb.pc # "raised"
    /\ pc # "raised"

-----------------------------------------------------------------------------
(* Properties of the store (SpecStore): channels and the audit log *)

\* C19: after every step each programs row has the channel_id of a stored
\* channels row, and every channels row that was stored is still stored.
C19_Claim ==
    [][/\ \A p \in programs' : \E c \in channels' : PyInt(c.id) = p.channel_id
       /\ \A c \in channels : \E d \in channels' : d.id = c.id]_vars

\* C20: a log_fetch call appends exactly one row to fetch_log and leaves every
\* row that was there as it was; every other call (upsert_channel,
\* insert_program, get_programs_by_date, cleanup_old_programs) leaves fetch_log
\* unchanged.
C20_AppendOnly ==
    [][IF Calls("log_fetch")
       THEN /\ Len(fetch_log') = Len(fetch_log) + 1
            /\ SubSeq(fetch_log', 1, Len(fetch_log)) = fetch_log
       ELSE fetch_log' = fetch_log]_vars

\* C20 witness: log_fetch was called for a pair that has a row already; both
\* rows are in fetch_log, the older one first, and programs are stored
C20_Witness ==
    /\ last.op = "log_fetch"
    /\ Len(fetch_log) >= 2
    /\ fetch_log[1].channel_id = fetch_log[2].channel_id
    /\ fetch_log[1].date = fetch_log[2].date
    /\ fetch_log[1] # fetch_log[2]
    /\ programs # {}

-----------------------------------------------------------------------------
(* Properties of the store (SpecStore): results of insert_program and linking *)

\* C21: insert_program returns False exactly when a programs row with the
\* record's external ID is stored at the time of the call; a record that is
\* rejected for another reason (a null title, start time or end time) does not
\* get the result of a duplicate.
C21_Claim ==
    [][Calls("insert_program") =>
        (last'.ret = "False"
           <=> (last'.pd.external_id # None /\ RowsOf(programs, last'.pd) # {}))]_vars

-----------------------------------------------------------------------------
(* Properties of a collector run (Spec): backoff, termination, counts *)

C23_Claim ==
    [][/\ pc \in {"fetch", "backoff", "fetched", "store"} => pc' # "raised"
       /\ pc = "ratelimit" => (NextPair /\ Len(fetch_log) = cur.log0 + 1)
       /\ (pc = "ratelimit" /\ pc' = "returned")
             => run'.units = (run.days_ahead + 1) * Len(CHANNELS)]_vars

\* Records for insert_program that repeat a genre and a person, and plain ones
LinkDatas ==
    {ProgramData(r, 1, <<Ymd[1]>>) : r \in {RawA, RawB, RawE}}
    \cup {ProgramData(RawE, 2, <<Ymd[1]>>)}

\* insert_program of such records among upsert_channel and
\* cleanup_old_programs calls
LinksNext ==
    \/ \E name \in ChannelNames : UpsertChannel(1, name)
    \/ \E pd \in LinkDatas : InsertProgram(pd)
    \/ \E k \in KeepDays, today \in Days : CleanupOldPrograms(k, today)

SpecLinks == Init /\ [][LinksNext]_vars

\* The (name, role) pairs a record lists
ListedRoles(e) == {<<e.people[k].name, e.people[k].role>> : k \in 1 .. Len(e.people)}

\* C24: insert_program of a well-formed record that is no duplicate returns True
\* and leaves, for the new program, exactly one program_genres row per distinct
\* genre name it lists and one program_people row per distinct (person, role)
\* it lists, however often the record repeats them, and one genres (people) row
\* per name: a person listed with two roles has two link rows and one people
\* row.
C24_LinkOnce ==
    [][(Calls("insert_program") /\ WellFormed(last'.pd) /\ ~IntegrityError(Tables, last'.pd)) =>
        /\ last'.ret = "True"
        /\ \E p \in programs' \ programs :
              /\ Cardinality({l \in program_genres' : l.program_id = p.id})
                    = Cardinality(ListedGenres(last'.pd))
              /\ Cardinality({l \in program_people' : l.program_id = p.id})
                    = Cardinality(ListedRoles(last'.pd))
              /\ \A name \in ListedGenres(last'.pd) :
                    /\ Cardinality({g \in genres' : g.name = name}) = 1
                    /\ \E g \in genres' :
                          /\ g.name = name
                          /\ [program_id |-> p.id, genre_id |-> g.id] \in program_genres'
              /\ \A nr \in ListedRoles(last'.pd) :
                    /\ Cardinality({q \in people' : q.name = nr[1]}) = 1
                    /\ \E q \in people' :
                          /\ q.name = nr[1]
                          /\ [program_id |-> p.id, person_id |-> q.id, role |-> nr[2]]
                                \in program_people']_vars

\* C24 witness: a record that lists Drama twice, Ann twice as an actor and Ann
\* as the director was stored: one genre link, two person links, one people row
C24_Witness ==
    /\ last.op = "insert_program" /\ last.ret = "True"
    /\ last.pd.genres = <<Drama, Drama>>
    /\ Len(last.pd.people) = 3
    /\ \E p \in RowsOf(programs, last.pd) :
          /\ Cardinality({l \in program_genres : l.program_id = p.id}) = 1
          /\ {l.role : l \in {l \in program_people : l.program_id = p.id}} = {"actor", "director"}
          /\ Cardinality({l \in program_people : l.program_id = p.id}) = 2
    /\ Cardinality({q \in people : q.name = Ann}) = 1

\* The sum of programs_count over the success rows k .. Len(fetch_log)
RECURSIVE SuccessCounted(_)
SuccessCounted(k) ==
    IF k > Len(fetch_log) THEN 0
    ELSE (IF fetch_log[k].success THEN fetch_log[k].programs_count ELSE 0)
         + SuccessCounted(k + 1)

\* C25: the programs_count a unit whose fetch succeeded writes to fetch_log is
\* the number of programs rows inserted during the unit, between 0 and the
\* number of raw records of the response; the value collect_daily_data returns
\* is the sum of programs_count over the success rows the run wrote, and is the
\* growth of the programs table during the run.
C25_CountsMatch ==
    /\ (pc = "ratelimit" /\ Succeeded)
          => /\ Len(fetch_log) = cur.log0 + 1
             /\ LastLog.programs_count = Cardinality(programs) - cur.rows0
             /\ LastLog.programs_count >= 0
             /\ LastLog.programs_count <= Len(cur.data.items)
    /\ pc = "returned"
          => /\ run.total_programs = SuccessCounted(run.log0 + 1)
             /\ run.total_programs = Cardinality(programs) - run.rows0

\* C25 witness: the last unit of a run fetched two records of which one was
\* stored and one was not (a duplicate or a failing record); it logged 1
C25_Witness ==
    /\ pc = "ratelimit" /\ Succeeded
    /\ Len(cur.data.items) = 2 /\ cur.inserts = 2
    /\ LastLog.success /\ LastLog.programs_count = 1
    /\ Cardinality(programs) = cur.rows0 + 1
    /\ run.ci = Len(CHANNELS)

-----------------------------------------------------------------------------
(* Refreshing the channel list: upsert_channel and update_channel_list *)

\* An administrator deactivates a channel of the relational store
\* (UPDATE channels SET active = 0); no method of TVDatabase does.
DeactivateChannel(channel_id) ==
    /\ pc = "idle"
    /\ \E c \in channels : c.id = channel_id /\ c.active
    /\ channels' = {IF c.id = channel_id THEN [c EXCEPT !.active = FALSE] ELSE c :
                       c \in channels}
    /\ last' = Call("sql", NoProgramData, "ok", 0)
    /\ UNCHANGED <<store, fetch_log, pc, run, cur, listed, memo, upstream, pb>>

\* An administrator deactivates a channel record of the remote store
PBDeactivateChannel(id) ==
    /\ \E c \in pb.channel_records : c.id = id /\ c.active
    /\ pb' = [pb EXCEPT !.channel_records =
                            {IF c.id = id THEN [c EXCEPT !.active = FALSE] ELSE c : c \in @},
                        !.wrote = [id |-> id, kind |-> "admin"]]
    /\ PBFrame

\* An entry of the upstream's channel list
PBChannel(id, name) == [dict |-> TRUE, id |-> id, name |-> name]

\* The channel lists the upstream answers with: known and new channels under
\* either name, and an entry that is not a JSON object
PBChannelEntries ==
    {PBChannel(PyInt(id), PyStr(<<name>>)) : id \in {1, 99}, name \in {"old", "new"}}
    \cup {[PBChannel(Absent, Absent) EXCEPT !.dict = FALSE]}
PBChannelLists == UNION {[1 .. n -> PBChannelEntries] : n \in 0 .. MaxBatch}

\* The channels collection after one iteration of the loop of
\* update_channel_list: get_record_by_id returns None when the record is
\* missing and when the request fails (found); the create of an id that exists
\* is rejected by the store, the patch-update leaves the fields it does not
\* name; up says whether the store answers the write.
StoreChannel(collection, id, name, found, up) ==
    LET stored == {c \in collection : c.id = id}
        existing == found /\ stored # {}
    IN  IF ~up THEN collection
        ELSE IF existing
        THEN {IF c.id = id THEN [c EXCEPT !.name = name] ELSE c : c \in collection}
        ELSE IF stored # {} THEN collection
        ELSE collection \cup {[id |-> id, name |-> name, active |-> TRUE]}

\* The write one iteration makes: a create, a patch-update, or none
WroteChannel(collection, id, found, up) ==
    LET stored == {c \in collection : c.id = id}
    IN  IF ~up THEN pb.wrote
        ELSE IF found /\ stored # {} THEN [id |-> id, kind |-> "update"]
        ELSE IF stored # {} THEN pb.wrote
        ELSE [id |-> id, kind |-> "create"]

\* main() with --update-channels: update_channel_list up to its loop; a failed
\* request or a response that is no list ends it
PBUpdateChannelList(ok, list) ==
    /\ pb.pc = "cmd"
    /\ pb' = IF ok THEN [pb EXCEPT !.pc = "chan", !.programs = list, !.i = 1,
                                   !.requested = TRUE]
             ELSE [pb EXCEPT !.pc = "exited", !.status = 0, !.requested = TRUE]
    /\ PBFrame

\* update_channel_list: one iteration of "for channel in channels"; an entry
\* that is not a dict raises AttributeError, which "except RequestException"
\* does not catch
PBUpdateChannel(found, up) ==
    LET channel == pb.programs[pb.i]
        id == Format(Get(channel.id))
        name == GetOr(channel.name, PyStr(<<>>))
    IN  /\ pb.pc = "chan"
        /\ pb.i <= Len(pb.programs)
        /\ pb' = IF ~channel.dict THEN [pb EXCEPT !.pc = "raised", !.status = 1]
                 ELSE [pb EXCEPT !.channel_records = StoreChannel(@, id, name, found, up),
                                 !.wrote = WroteChannel(pb.channel_records, id, found, up),
                                 !.i = @ + 1]
        /\ PBFrame

\* update_channel_list returns after the last entry, and main() with it
PBUpdateDone ==
    /\ pb.pc = "chan"
    /\ pb.i > Len(pb.programs)
    /\ pb' = [pb EXCEPT !.pc = "exited", !.status = 0]
    /\ PBFrame

\* The script is started again; the record store keeps its collections
PBRestart ==
    /\ pb.pc \in {"exited", "raised"}
    /\ pb' = [NoPB EXCEPT !.records = pb.records, !.series = pb.series,
                          !.fetch_logs = pb.fetch_logs, !.created = pb.created,
                          !.channel_records = pb.channel_records, !.wrote = pb.wrote]
    /\ PBFrame

ChannelsNext ==
    \/ \E name \in ChannelNames : UpsertChannel(1, name)
    \/ DeactivateChannel(1)
    \/ PBMain(TRUE, TRUE)
    \/ \E ok \in BOOLEAN : PBAuthenticate(ok)
    \/ \E ok \in BOOLEAN, list \in PBChannelLists : PBUpdateChannelList(ok, list)
    \/ \E found, up \in BOOLEAN : PBUpdateChannel(found, up)
    \/ PBUpdateDone
    \/ \E id \in {<<"1">>, <<"99">>} : PBDeactivateChannel(id)
    \/ PBRestart

SpecChannels == Init /\ [][ChannelsNext]_vars

\* C26: an upsert_channel call leaves the active flag of every channels row that
\* was stored as it was, and so does every iteration of update_channel_list for
\* the channel records of the remote store; a record update_channel_list
\* creates is active.
C26_ActiveKept ==
    [][/\ Calls("upsert_channel")
          => \A c \in channels, d \in channels' : d.id = c.id => d.active = c.active
       /\ (pb.pc = "chan" /\ pb'.i = pb.i + 1)
          => /\ \A c \in pb.channel_records :
                    \E d \in pb'.channel_records : d.id = c.id /\ d.active = c.active
             /\ \A d \in pb'.channel_records :
                    (\A c \in pb.channel_records : c.id # d.id)
                       => (d.active /\ pb'.wrote = [id |-> d.id, kind |-> "create"])]_vars

\* C26 witness: in both stores a channel that was deactivated has since been
\* refreshed (the last write to it is the refresh, which renamed it) and is
\* still inactive
C26_Witness ==
    /\ last.op = "upsert_channel"
    /\ \E c \in channels : ~c.active /\ c.name = "MTV3"
    /\ pb.wrote.kind = "update"
    /\ \E c \in pb.channel_records :
          c.id = pb.wrote.id /\ ~c.active /\ c.name = PyStr(<<"new">>)

-----------------------------------------------------------------------------
(* Properties of _get_program_id (SpecId), continued *)

\* C27: two records without a native id that differ in channel, date, title or
\* start time never get the same external ID from _get_program_id.
C27_Claim ==
    \A a, b \in memo :
        (~Has(a.program.id) /\ ~Has(b.program.id)
           /\ (a.channel_id # b.channel_id \/ a.day # b.day
               \/ ~SameTitleAndStart(a.program, b.program)))
        => a.id # b.id

-----------------------------------------------------------------------------
(* Properties of the remote-store collector (SpecPB), continued *)

\* C28: every store_program call completes its write: with a store that
\* answers, it sends a create when the programs collection holds no record of
\* the program's id and a patch-update when it holds one; afterwards the
\* collection holds exactly one record of that id, with the fields the call
\* sent, and every record of another id is as it was.
C28_Claim ==
    [][(pb.pc = "store" /\ pb.i <= Len(pb.programs) /\ pb' # pb) =>
        LET program == pb.programs[pb.i]
            rec == PBProgramData(program, CHANNELS[pb.ci])
        IN  /\ pb'.pc # "raised"
            /\ pb'.stored = pb.stored + 1 =>
                  /\ pb'.wrote = [id |-> rec.id,
                                  kind |-> IF \E r \in pb.records : r.id = rec.id
                                           THEN "update" ELSE "create"]
                  /\ Cardinality({r \in pb'.records : r.id = rec.id}) = 1
                  /\ \A r \in pb'.records :
                        r.id = rec.id =>
                            /\ r.channel = rec.channel /\ r.name = rec.name
                            /\ r.start_time = rec.start_time /\ r.end_time = rec.end_time
                            /\ r.duration = rec.duration /\ r.is_series = rec.is_series
                            /\ rec.is_series => r.series = rec.series
                  /\ {r \in pb'.records : r.id # rec.id} = {r \in pb.records : r.id # rec.id}]_vars

-----------------------------------------------------------------------------
(* get_programs_by_date among upsert_channel and insert_program calls *)

\* RawA under another id, starting at 21:30
RawLate == [RawA EXCEPT !.id = PyInt(11), !.startTime = IsoLateAt(1)]

\* Programs of day 1 on channel 1 (at 20:00 and at 21:30), on channel 0 and
\* on channel 2, and a program of day 2
QueryDatas ==
    {ProgramData(RawA, 1, <<Ymd[1]>>), ProgramData(RawLate, 1, <<Ymd[1]>>),
     ProgramData(RawE, 0, <<Ymd[1]>>), ProgramData(RawE, 2, <<Ymd[1]>>),
     ProgramData(RawB, 1, <<Ymd[2]>>)}

QueryNext ==
    \/ \E channel_id \in {0, 1} : UpsertChannel(channel_id, "YLE TV1")
    \/ \E pd \in QueryDatas : InsertProgram(pd)
    \/ \E channel_id \in {None, PyInt(0), PyInt(1), PyInt(2)} : GetProgramsByDate(1, channel_id)

SpecQuery == Init /\ [][QueryNext]_vars

\* The stored program with the row id
ProgramOf(id) == CHOOSE p \in programs : p.id = id

\* C29: get_programs_by_date(date, channel_id) returns each stored program whose
\* start date is the date and whose channel is channel_id once, and no other
\* row, ordered by start time; with channel_id omitted it returns each stored
\* program of the date once, ordered by channel and then start time.
C29_Claim ==
    [][Calls("get_programs_by_date") =>
        LET q == last'.q
            rows == last'.rows
            want == {p \in programs :
                        /\ q.day \in SqlDate(p.start_time)
                        /\ q.channel_id # None => p.channel_id = q.channel_id}
        IN  /\ {rows[k] : k \in DOMAIN rows} = {p.id : p \in want}
            /\ Len(rows) = Cardinality(want)
            /\ \A i, j \in DOMAIN rows :
                  i < j =>
                      IF q.channel_id = None
                         /\ ProgramOf(rows[i]).channel_id # ProgramOf(rows[j]).channel_id
                      THEN ProgramOf(rows[i]).channel_id.n < ProgramOf(rows[j]).channel_id.n
                      ELSE TextOrder(ProgramOf(rows[i]).start_time)
                              <= TextOrder(ProgramOf(rows[j]).start_time)]_vars

-----------------------------------------------------------------------------
(* pocketbase_collector.py: cleanup_old_data *)

\* get_records(..., per_page=500), and cleanup_old_data(days=30)
PER_PAGE == 500
DEFAULT_DAYS == 30

\* Seconds of a day, and the time of the cleanup run: day 41 at 00:00
DaySeconds == 86400
CleanupNow == 40 * DaySeconds

\* A programs record that an earlier run stored
PBStored(k, start_time) ==
    [id |-> <<ToString(k)>>, channel |-> 1, name |-> PyStr(<<"a">>),
     start_time |-> start_time, end_time |-> start_time + 5400, duration |-> 90,
     is_series |-> FALSE, series |-> <<>>]

\* What earlier runs left in the store when the cleanup starts: n programs of
\* day 1 and m fetch_logs records created on day 1, besides a program that
\* starts at the cutoff to the second, a program of day 40 and a fetch_logs
\* record of day 40
PBEarlierRuns(n, m) ==
    /\ pb.pc = "start"
    /\ pb.records = {} /\ pb.fetch_logs = <<>>
    /\ pb' = [pb EXCEPT
                 !.records = {PBStored(k, PBStart) : k \in 1 .. n}
                             \cup {PBStored(n + 1, CleanupNow - DEFAULT_DAYS * DaySeconds),
                                   PBStored(n + 2, CleanupNow - DaySeconds)},
                 !.fetch_logs = [k \in 1 .. m + 1 |->
                                    LogRow(1, IF k <= m THEN Ymd[1] ELSE "20250209", TRUE, 1, "")],
                 !.created = [k \in 1 .. m + 1 |->
                                 IF k <= m THEN PBStart ELSE CleanupNow - DaySeconds]]
    /\ PBFrame

\* The subsets of k elements of a set
RECURSIVE KSubsets(_, _)
KSubsets(S, k) ==
    IF k = 0 THEN {{}}
    ELSE UNION {{T \cup {x} : T \in KSubsets(S \ {x}, k - 1)} : x \in S}

\* get_records(collection, filter, per_page=500): the first page of the records
\* that match, which is all of them when there are at most PER_PAGE, and
\* PER_PAGE of them otherwise (page 2 is never requested); [] when the request
\* fails
Pages(matching, up) ==
    IF ~up THEN {{}}
    ELSE IF Cardinality(matching) <= PER_PAGE THEN {matching}
    ELSE {matching \ rest : rest \in KSubsets(matching, Cardinality(matching) - PER_PAGE)}

\* The entries lo .. hi of a sequence without those at the positions gone
RECURSIVE Without(_, _, _, _)
Without(s, gone, lo, hi) ==
    IF lo > hi THEN <<>>
    ELSE IF lo = hi THEN (IF lo \in gone THEN <<>> ELSE <<s[lo]>>)
    ELSE Without(s, gone, lo, (lo + hi) \div 2)
         \o Without(s, gone, (lo + hi) \div 2 + 1, hi)

\* main() with --cleanup: cleanup_old_data(days), its programs part: the old
\* programs are listed and a DELETE is sent for each; a delete that is not
\* answered with 204 (failed) leaves its record.  Which delete of the page
\* fails changes nothing of what follows; the model takes one.
PBCleanupPrograms(days, now, up, failed) ==
    LET cutoff == now - days * DaySeconds
        matching == {r \in pb.records : r.start_time < cutoff}
    IN  /\ pb.pc = "cmd"
        /\ \E page \in Pages(matching, up) :
              \E kept \in IF failed /\ page # {} THEN {{CHOOSE r \in page : TRUE}} ELSE {{}} :
                  pb' = [pb EXCEPT !.pc = "cleanup_logs", !.now = now, !.cutoff = cutoff,
                                   !.records = @ \ (page \ kept),
                                   !.answered = up /\ kept = {},
                                   !.requested = TRUE]
        /\ PBFrame

\* cleanup_old_data(days), its fetch_logs part, and the return of main()
PBCleanupLogs(up, failed) ==
    LET matching == {k \in DOMAIN pb.created : pb.created[k] < pb.cutoff}
    IN  /\ pb.pc = "cleanup_logs"
        /\ \E page \in Pages(matching, up) :
              \E kept \in IF failed /\ page # {} THEN {{CHOOSE k \in page : TRUE}} ELSE {{}} :
                  pb' = [pb EXCEPT !.pc = "exited", !.status = 0,
                                   !.fetch_logs = Without(@, page \ kept, 1, Len(@)),
                                   !.created = Without(@, page \ kept, 1, Len(@)),
                                   !.answered = @ /\ up /\ kept = {}]
        /\ PBFrame

CleanupNext ==
    \/ \E nm \in {<<0, 0>>, <<1, 1>>, <<PER_PAGE + 1, 1>>, <<1, PER_PAGE + 1>>} :
          PBEarlierRuns(nm[1], nm[2])
    \/ PBMain(TRUE, TRUE)
    \/ \E ok \in BOOLEAN : PBAuthenticate(ok)
    \/ \E up, failed \in BOOLEAN : PBCleanupPrograms(DEFAULT_DAYS, CleanupNow, up, failed)
    \/ \E up, failed \in BOOLEAN : PBCleanupLogs(up, failed)
    \/ PBRestart

SpecCleanup == Init /\ [][CleanupNext]_vars

\* C30: when cleanup_old_data(days) returns and the store has answered every
\* request of the call successfully, the programs collection holds exactly the
\* records it held whose start_time is not earlier than the cutoff, and
\* fetch_logs exactly the records it held that were not created earlier than
\* the cutoff, whatever the number of old records.
C30_Claim ==
    [][/\ (pb.pc = "cmd" /\ pb'.pc = "cleanup_logs" /\ pb'.answered)
          => pb'.records = {r \in pb.records : r.start_time >= pb'.cutoff}
       /\ (pb.pc = "cleanup_logs" /\ pb'.pc = "exited" /\ pb'.answered)
          => /\ \A k \in DOMAIN pb'.created : pb'.created[k] >= pb.cutoff
             /\ Len(pb'.created)
                   = Cardinality({k \in DOMAIN pb.created : pb.created[k] >= pb.cutoff})
             /\ Len(pb'.fetch_logs) = Len(pb'.created)]_vars

====
